---- MODULE Spec2Model ----
(***************************************************************************)
(* Verification model of xcli: the input classifiers (internal/util.ts),   *)
(* the users/posts command layer (cli.ts) and the WOEID index loader       *)
(* (internal/woeid.ts).                                                    *)
(*                                                                         *)
(* A JavaScript string is modelled as a sequence of one-character strings  *)
(* over printable ASCII, so that prefix tests, regular expressions, split, *)
(* trim and percent-decoding are computed character by character.          *)
(***************************************************************************)
EXTENDS Integers, Sequences, FiniteSets, TLC

(***************************************************************************)
(* Characters and generic string helpers (the JavaScript built-ins the     *)
(* classifiers call).                                                      *)
(***************************************************************************)

\* The grave accent (0x60), which cannot be written inside a string here.
Grave == "<grave>"

\* Printable ASCII, code points 0x20..0x7E, in code order.
Ascii ==
  <<" ","!","\"","#","$","%","&","'","(",")","*","+",",","-",".","/",
    "0","1","2","3","4","5","6","7","8","9",":",";","<","=",">","?",
    "@","A","B","C","D","E","F","G","H","I","J","K","L","M","N","O",
    "P","Q","R","S","T","U","V","W","X","Y","Z","[","\\","]","^","_",
    Grave,"a","b","c","d","e","f","g","h","i","j","k","l","m","n","o",
    "p","q","r","s","t","u","v","w","x","y","z","{","|","}","~">>

CodeOf(c) == 31 + (CHOOSE i \in 1..Len(Ascii) : Ascii[i] = c)

CharOf(code) == Ascii[code - 31]

Digits == {CharOf(k) : k \in 48..57}

UpperChars == {CharOf(k) : k \in 65..90}

LowerChars == {CharOf(k) : k \in 97..122}

\* \w of the regular expressions: [A-Za-z0-9_]
WordChars == Digits \cup UpperChars \cup LowerChars \cup {"_"}

\* White space String.prototype.trim removes (the ASCII part).
WhiteSpace == {" ", "\t", "\n", "\r"}

\* A decoded character outside printable ASCII (control or non-ASCII);
\* it is in none of the character classes above.
OtherChar == "<other>"

\* In applied to value: names a value that is used more than once.
With(value, In(_)) == In(value)

Take(s, n) == SubSeq(s, 1, n)

Drop(s, n) == SubSeq(s, n + 1, Len(s))

startsWith(s, p) == Len(s) >= Len(p) /\ SubSeq(s, 1, Len(p)) = p

toLowerChar(c) == IF c \in UpperChars THEN CharOf(CodeOf(c) + 32) ELSE c

toLowerCase(s) == [i \in 1..Len(s) |-> toLowerChar(s[i])]

\* Index of the first character of s that is in set cs, Len(s)+1 when none.
IndexOfAny(s, cs) ==
  IF \E i \in 1..Len(s) : s[i] \in cs
  THEN CHOOSE i \in 1..Len(s) : s[i] \in cs /\ \A j \in 1..(i - 1) : s[j] \notin cs
  ELSE Len(s) + 1

\* Index of the first character of s that is not in set cs, Len(s)+1 when none.
IndexOfNone(s, cs) ==
  IF \E i \in 1..Len(s) : s[i] \notin cs
  THEN CHOOSE i \in 1..Len(s) : s[i] \notin cs /\ \A j \in 1..(i - 1) : s[j] \in cs
  ELSE Len(s) + 1

\* Index of the last character of s that is in set cs, 0 when none.
LastIndexOfAny(s, cs) ==
  IF \E i \in 1..Len(s) : s[i] \in cs
  THEN CHOOSE i \in 1..Len(s) : s[i] \in cs /\ \A j \in (i + 1)..Len(s) : s[j] \notin cs
  ELSE 0

\* s up to its first character in cs (all of s when there is none).
TakeUntil(s, cs) == Take(s, IndexOfAny(s, cs) - 1)

\* s from its first character in cs on (empty when there is none).
DropUntil(s, cs) == Drop(s, IndexOfAny(s, cs) - 1)

\* s after its first character in cs (empty when there is none).
DropThrough(s, cs) == Drop(s, IndexOfAny(s, cs))

\* s after its last character in cs (all of s when there is none).
DropThroughLast(s, cs) == Drop(s, LastIndexOfAny(s, cs))

\* s without its leading characters in cs.
DropWhile(s, cs) == Drop(s, IndexOfNone(s, cs) - 1)

RECURSIVE split(_, _)
\* String.prototype.split on a one-character separator (any of cs).
split(s, cs) ==
  LET k == IndexOfAny(s, cs)
  IN  IF k > Len(s) THEN <<s>> ELSE <<Take(s, k - 1)>> \o split(Drop(s, k), cs)

RECURSIVE join(_, _)
\* Array.prototype.join
join(parts, sep) ==
  IF Len(parts) = 0 THEN <<>>
  ELSE IF Len(parts) = 1 THEN parts[1]
  ELSE parts[1] \o sep \o join(Tail(parts), sep)

\* String.prototype.trim
trim(s) ==
  LET keep == {i \in 1..Len(s) : s[i] \notin WhiteSpace}
  IN  IF keep = {} THEN <<>>
      ELSE SubSeq(s, CHOOSE i \in keep : \A j \in keep : i <= j,
                     CHOOSE i \in keep : \A j \in keep : i >= j)

HexVal(c) ==
  IF c \in Digits THEN CodeOf(c) - 48
  ELSE IF c \in {"a", "b", "c", "d", "e", "f"} THEN CodeOf(c) - 87
  ELSE IF c \in {"A", "B", "C", "D", "E", "F"} THEN CodeOf(c) - 55
  ELSE -1

\* The byte of the escape %XX starting at s[i]; -1 when s[i..i+2] is no escape.
ByteAt(s, i) ==
  IF i + 2 <= Len(s) /\ s[i] = "%"
  THEN With(HexVal(s[i + 1]), LAMBDA hi :
       With(HexVal(s[i + 2]), LAMBDA lo :
         IF hi >= 0 /\ lo >= 0 THEN 16 * hi + lo ELSE -1))
  ELSE -1

\* Length of the UTF-8 sequence a lead byte announces; 0 for a byte that
\* cannot start a sequence (continuation bytes, overlong leads, > U+10FFFF).
Utf8Len(b) ==
  IF b \in 194..223 THEN 2
  ELSE IF b \in 224..239 THEN 3
  ELSE IF b \in 240..244 THEN 4
  ELSE 0

\* The continuation bytes of the n-byte sequence escaped at s[i] are well formed.
Utf8ContOk(s, i, b, n) ==
  /\ \A k \in 1..(n - 1) : ByteAt(s, i + 3 * k) \in 128..191
  /\ LET b2 == ByteAt(s, i + 3)
     IN  CASE b = 224 -> b2 >= 160
           [] b = 237 -> b2 <= 159
           [] b = 240 -> b2 >= 144
           [] b = 244 -> b2 <= 143
           [] OTHER -> TRUE

RECURSIVE decodeFrom(_, _)
decodeFrom(s, i) ==
  IF i > Len(s) THEN [threw |-> FALSE, v |-> <<>>]
  ELSE IF s[i] # "%"
  THEN LET r == decodeFrom(s, i + 1) IN [r EXCEPT !.v = <<s[i]>> \o @]
  ELSE With(ByteAt(s, i), LAMBDA b :
         IF b < 0 THEN [threw |-> TRUE, v |-> <<>>]
         ELSE IF b < 128
         THEN LET r == decodeFrom(s, i + 3)
              IN  [r EXCEPT !.v = <<IF b \in 32..126 THEN CharOf(b) ELSE OtherChar>> \o @]
         ELSE IF Utf8Len(b) = 0 \/ ~Utf8ContOk(s, i, b, Utf8Len(b))
         THEN [threw |-> TRUE, v |-> <<>>]
         ELSE LET r == decodeFrom(s, i + 3 * Utf8Len(b))
              IN  [r EXCEPT !.v = <<OtherChar>> \o @])

\* decodeURIComponent: threw = TRUE stands for the URIError it raises on a
\* malformed escape; once an escape is malformed the partial result is lost.
decodeURIComponent(s) ==
  With(decodeFrom(s, 1), LAMBDA r : IF r.threw THEN [threw |-> TRUE, v |-> <<>>] ELSE r)

(***************************************************************************)
(* new URL(input), the WHATWG URL parser, for the inputs parseUrl is       *)
(* called with: strings that start with "http://" or "https://" (a special *)
(* scheme).  Only hostname and pathname are used by the callers.           *)
(***************************************************************************)

\* Characters the host parser rejects (forbidden domain code points).
ForbiddenHostChars ==
  {" ", "#", "/", ":", "<", ">", "?", "@", "[", "\\", "]", "^", "|", "%", OtherChar}

\* Characters of a path segment the parser writes as %XX.
PathEncodeSet == {" ", "\"", "<", ">", Grave, "{", "}"}

HexDigits == <<"0","1","2","3","4","5","6","7","8","9","A","B","C","D","E","F">>

pathEncodeChar(c) ==
  IF c \in PathEncodeSet
  THEN <<"%", HexDigits[(CodeOf(c) \div 16) + 1], HexDigits[(CodeOf(c) % 16) + 1]>>
  ELSE <<c>>

RECURSIVE pathEncode(_)
pathEncode(seg) ==
  IF Len(seg) = 0 THEN <<>> ELSE pathEncodeChar(Head(seg)) \o pathEncode(Tail(seg))

RECURSIVE percentDecode(_, _)
\* Percent-decoding of the host: valid escapes are decoded, anything else stays.
percentDecode(s, i) ==
  IF i > Len(s) THEN <<>>
  ELSE With(ByteAt(s, i), LAMBDA b :
         IF b < 0 THEN <<s[i]>> \o percentDecode(s, i + 1)
         ELSE <<(IF b \in 32..126 THEN CharOf(b) ELSE OtherChar)>> \o percentDecode(s, i + 3))

isSingleDot(seg) == toLowerCase(seg) \in {<<".">>, <<"%","2","e">>}

isDoubleDot(seg) == toLowerCase(seg) \in {<<".",".">>, <<".","%","2","e">>, <<"%","2","e",".">>, <<"%","2","e","%","2","e">>}

shorten(path) == IF Len(path) = 0 THEN path ELSE Take(path, Len(path) - 1)

RECURSIVE normalizePath(_, _, _)
\* The path state: dot segments are resolved, other segments are encoded.
normalizePath(segs, i, acc) ==
  IF i > Len(segs) THEN acc
  ELSE IF isDoubleDot(segs[i])
  THEN normalizePath(segs, i + 1,
         IF i = Len(segs) THEN Append(shorten(acc), <<>>) ELSE shorten(acc))
  ELSE IF isSingleDot(segs[i])
  THEN normalizePath(segs, i + 1, IF i = Len(segs) THEN Append(acc, <<>>) ELSE acc)
  ELSE normalizePath(segs, i + 1, Append(acc, pathEncode(segs[i])))

\* A port is a possibly empty run of digits with value at most 65535.
portOk(p) ==
  /\ \A i \in 1..Len(p) : p[i] \in Digits
  /\ LET nz == {i \in 1..Len(p) : p[i] # "0"}
         sig == IF nz = {} THEN <<>>
                ELSE Drop(p, (CHOOSE i \in nz : \A j \in nz : i <= j) - 1)
         d(k) == CodeOf(sig[k]) - 48
     IN  \/ Len(sig) < 5
         \/ /\ Len(sig) = 5
            /\ 10000 * d(1) + 1000 * d(2) + 100 * d(3) + 10 * d(4) + d(5) <= 65535

\* The host ends in a number: the parser then reads it as an IPv4 address.
\* No input drawn below has such a host; it is reported as a parse failure.
endsInNumber(host) ==
  LET labels == split(host, {"."})
      n == IF Len(labels) > 1 /\ labels[Len(labels)] = <<>> THEN Len(labels) - 1
           ELSE Len(labels)
  IN  /\ Len(labels[n]) > 0
      /\ \A i \in 1..Len(labels[n]) : labels[n][i] \in Digits

UrlFailure == [ok |-> FALSE, hostname |-> <<>>, pathname |-> <<>>]

\* The host state: the host is percent-decoded and lower-cased, and fails
\* when it is empty, holds a forbidden code point or ends in a number.
hostOk(host) ==
  /\ Len(host) > 0
  /\ \A i \in 1..Len(host) : host[i] \notin ForbiddenHostChars
  /\ ~endsInNumber(host)

\* The path state for what follows the authority: the path ends at "?" or
\* "#", and the slash and the backslash both separate segments.
pathOf(after) ==
  <<"/">> \o join(normalizePath(split(Drop(TakeUntil(after, {"?", "#"}), 1), {"/", "\\"}),
                                1, <<>>),
                  <<"/">>)

\* The authority state: credentials end at the last "@", the port starts at
\* the first ":" after them.
urlOf(hostport, after) ==
  With(toLowerCase(percentDecode(TakeUntil(hostport, {":"}), 1)), LAMBDA host :
    IF hostOk(host) /\ portOk(DropThrough(hostport, {":"}))
    THEN [ok |-> TRUE, hostname |-> host, pathname |-> pathOf(after)]
    ELSE UrlFailure)

newURL(input) ==
  LET noTab == SelectSeq(input, LAMBDA c : c \notin {"\t", "\n", "\r"})
      slashes == DropThrough(trim(noTab), {":"})
  IN  With(DropWhile(slashes, {"/", "\\"}), LAMBDA rest :
        urlOf(DropThroughLast(TakeUntil(rest, {"/", "\\", "?", "#"}), {"@"}),
              DropUntil(rest, {"/", "\\", "?", "#"})))

(***************************************************************************)
(* internal/util.ts: the string classifiers and the two input resolvers.   *)
(***************************************************************************)

RESERVED_USER_PATHS ==
  {<<"a","b","o","u","t">>, <<"c","o","m","p","o","s","e">>, <<"e","x","p","l","o","r","e">>, <<"h","a","s","h","t","a","g">>, <<"h","o","m","e">>, <<"i">>, <<"i","n","t","e","n","t">>, <<"l","o","g","i","n">>,
   <<"m","e","s","s","a","g","e","s">>, <<"n","o","t","i","f","i","c","a","t","i","o","n","s">>, <<"p","r","i","v","a","c","y">>, <<"s","e","a","r","c","h">>, <<"s","e","t","t","i","n","g","s">>, <<"s","h","a","r","e">>,
   <<"s","i","g","n","u","p">>, <<"t","o","s">>}

UsernameMaxLen == 50

isProbablyUrl(s) == startsWith(s, <<"h","t","t","p",":","/","/">>) \/ startsWith(s, <<"h","t","t","p","s",":","/","/">>)

\* /^\d+$/
isNumericId(input) == Len(input) > 0 /\ \A i \in 1..Len(input) : input[i] \in Digits

\* isLikelyUsername without the upper bound of the quantifier: /^[A-Za-z0-9_]+$/
isLikelyUsername_Unbounded(input) ==
  Len(input) > 0 /\ \A i \in 1..Len(input) : input[i] \in WordChars

\* /^[A-Za-z0-9_]{1,50}$/
isLikelyUsername(input) ==
  /\ Len(input) \in 1..UsernameMaxLen
  /\ \A i \in 1..Len(input) : input[i] \in WordChars

normalizeUsername(input) == IF startsWith(input, <<"@">>) THEN Drop(input, 1) ELSE input

None == [some |-> FALSE, v |-> <<>>]

Some(v) == [some |-> TRUE, v |-> v]

\* url.match(/<lit>(\d+)/): the digits captured by the leftmost match.
matchDigitsAfter(url, lit) ==
  LET n == Len(lit)
      hits == {i \in 1..(Len(url) - n) :
                 SubSeq(url, i, i + n - 1) = lit /\ url[i + n] \in Digits}
  IN  IF hits = {} THEN None
      ELSE LET i == CHOOSE h \in hits : \A g \in hits : h <= g
               rest == Drop(url, i + n - 1)
           IN  Some(Take(rest, IndexOfNone(rest, Digits) - 1))

extractPostId(url) ==
  With(matchDigitsAfter(url, <<"/","s","t","a","t","u","s","/">>), LAMBDA m :
    IF m.some THEN m ELSE matchDigitsAfter(url, <<"/","i","/","w","e","b","/","s","t","a","t","u","s","/">>))

\* normalizeHost that keeps only the registrable domain, the last two labels.
normalizeHost_AnySubdomain(hostname) ==
  With(split(toLowerCase(hostname), {"."}), LAMBDA labels :
    IF Len(labels) < 2 THEN toLowerCase(hostname)
    ELSE labels[Len(labels) - 1] \o <<".">> \o labels[Len(labels)])

normalizeHost(hostname) ==
  With(toLowerCase(hostname), LAMBDA h : IF startsWith(h, <<"w","w","w",".">>) THEN Drop(h, 4) ELSE h)

parseUrl(input) == newURL(input)

\* pathname.split("/").map(trim).filter(non-empty)
pathSegments(pathname) ==
  LET parts == split(pathname, {"/"})
      trimmed == [i \in 1..Len(parts) |-> trim(parts[i])]
  IN  SelectSeq(trimmed, LAMBDA x : Len(x) > 0)

\* Results of the two extractors: threw stands for the URIError raised by
\* decodeURIComponent, some = FALSE for undefined.
Threw == [threw |-> TRUE, some |-> FALSE, v |-> <<>>]

Undefined == [threw |-> FALSE, some |-> FALSE, v |-> <<>>]

Defined(v) == [threw |-> FALSE, some |-> TRUE, v |-> v]

extractUserFromProfilePath(pathname) ==
  With(pathSegments(pathname), LAMBDA segments :
    LET seg(k) == IF k <= Len(segments) THEN segments[k] ELSE <<>>  \* segments[k] ?? ""
    IN  IF Len(segments) = 0 THEN Undefined
        ELSE IF seg(1) = <<"i">> /\ seg(2) = <<"u","s","e","r">> /\ isNumericId(seg(3))
        THEN Defined(<<"i","d",":">> \o seg(3))
        ELSE With(decodeURIComponent(seg(1)), LAMBDA dec :
             With(normalizeUsername(dec.v), LAMBDA first :
               IF dec.threw THEN Threw
               ELSE IF toLowerCase(first) \in RESERVED_USER_PATHS THEN Undefined
               ELSE IF ~isLikelyUsername(first) THEN Undefined
               ELSE Defined(<<"u","s","e","r","n","a","m","e",":">> \o first))))

\* extractUserFromStatusPath that lower-cases the username it returns.
extractUserFromStatusPath_Lowered(pathname) ==
  With(pathSegments(pathname), LAMBDA segments :
    IF Len(segments) < 3 THEN Undefined
    ELSE IF segments[2] # <<"s","t","a","t","u","s">> THEN Undefined
    ELSE With(decodeURIComponent(segments[1]), LAMBDA dec :
         With(normalizeUsername(dec.v), LAMBDA username :
           IF dec.threw THEN Threw
           ELSE IF ~isLikelyUsername(username) THEN Undefined
           ELSE Defined(toLowerCase(username)))))

extractUserFromStatusPath(pathname) ==
  With(pathSegments(pathname), LAMBDA segments :
    IF Len(segments) < 3 THEN Undefined
    ELSE IF segments[2] # <<"s","t","a","t","u","s">> THEN Undefined
    ELSE With(decodeURIComponent(segments[1]), LAMBDA dec :
         With(normalizeUsername(dec.v), LAMBDA username :
           IF dec.threw THEN Threw
           ELSE IF ~isLikelyUsername(username) THEN Undefined
           ELSE Defined(username))))

\* A classification result.  kind "throw" is not a value the function
\* returns: it records that the call raised an exception instead.
Result(kind, value, source, reason) ==
  [kind |-> kind, value |-> value, source |-> source, reason |-> reason]

\* host !== "x.com" && host !== "twitter.com"
otherHost(host) == host # <<"x",".","c","o","m">> /\ host # <<"t","w","i","t","t","e","r",".","c","o","m">>

parseUserInput(source) ==
  IF isProbablyUrl(source)
  THEN With(parseUrl(source), LAMBDA parsed :
         IF ~parsed.ok THEN Result("invalid", <<>>, source, "Invalid URL.")
         ELSE IF otherHost(normalizeHost(parsed.hostname))
         THEN Result("invalid", <<>>, source, "URL must be on x.com or twitter.com.")
         ELSE With(extractUserFromStatusPath(parsed.pathname), LAMBDA statusUser :
           IF statusUser.threw THEN Result("throw", <<>>, source, "URIError")
           ELSE IF statusUser.some THEN Result("username", statusUser.v, source, "")
           ELSE With(extractUserFromProfilePath(parsed.pathname), LAMBDA profile :
             IF profile.threw THEN Result("throw", <<>>, source, "URIError")
             ELSE IF ~profile.some
             THEN Result("invalid", <<>>, source, "Could not determine a user from URL.")
             ELSE IF startsWith(profile.v, <<"i","d",":">>)
             THEN Result("id", Drop(profile.v, 3), source, "")
             ELSE Result("username", Drop(profile.v, 9), source, ""))))
  ELSE IF isNumericId(source) THEN Result("id", source, source, "")
  ELSE With(normalizeUsername(source), LAMBDA username :
         IF isLikelyUsername(username) THEN Result("username", username, source, "")
         ELSE Result("invalid", <<>>, source,
                     "Expected an ID, username, or x.com/twitter.com URL."))

parsePostInput(source) ==
  IF isProbablyUrl(source)
  THEN With(parseUrl(source), LAMBDA parsed :
         IF ~parsed.ok THEN Result("invalid", <<>>, source, "Invalid URL.")
         ELSE IF otherHost(normalizeHost(parsed.hostname))
         THEN Result("invalid", <<>>, source, "URL must be on x.com or twitter.com.")
         ELSE With(extractPostId(source), LAMBDA id :
           IF ~id.some
           THEN Result("invalid", <<>>, source, "Could not determine a Post ID from URL.")
           ELSE Result("id", id.v, source, "")))
  ELSE IF isNumericId(source) THEN Result("id", source, source, "")
  ELSE Result("invalid", <<>>, source,
              "Expected a numeric Post ID or x.com/twitter.com status URL.")

\* dedupe that keeps the last occurrence of each value instead of the first.
dedupe_KeepLast(values) ==
  LET lasts == SelectSeq([i \in 1..Len(values) |-> i],
                         LAMBDA i : \A j \in (i + 1)..Len(values) : values[j] # values[i])
  IN  [k \in 1..Len(lasts) |-> values[lasts[k]]]

\* Array.from(new Set(values)): a Set keeps each value once, in the order
\* of first insertion.
dedupe(values) ==
  LET firsts == SelectSeq([i \in 1..Len(values) |-> i],
                          LAMBDA i : \A j \in 1..(i - 1) : values[j] # values[i])
  IN  [k \in 1..Len(firsts) |-> values[firsts[k]]]

(***************************************************************************)
(* State.                                                                  *)
(***************************************************************************)

VARIABLES
  inp,        \* the classifier input under test, as the parts it is built from
  source,     \* the input string handed to the classifiers
  userRes,    \* result of parseUserInput(source), kind "none" before the call
  postRes,    \* result of parsePostInput(source), kind "none" before the call
  positionals, \* main: the positional arguments of the invocation
  g,          \* main: the global options of the invocation
  env,        \* main: environment variables and config file seen by the process
  pc,         \* main: "idle", the await the command is suspended at, or "done"
  frame,      \* main: the locals that live across an await
  exitCode,   \* main: the value main resolved to, -1 before
  stdout,     \* main: what was written to standard output, in order
  stderr,     \* main: what was written to standard error, in order
  clients,    \* main: number of SDK clients constructed
  requests,   \* main: the SDK requests issued, in order
  now,        \* woeid: the clock, Date.now()
  cacheFile,  \* woeid: the file at the cache path
  wpc,        \* woeid: where loadWoeidIndex is suspended, "idle" between calls
  call,       \* woeid: number of calls begun; file and clock when the last one began
  remote,     \* woeid: the index fetchRemoteIndex returned to the running call
  fetches,    \* woeid: network fetches issued by the last call
  writes,     \* woeid: cache files written by the last call
  wres,       \* woeid: what the last call returned or threw
  query,      \* search: the query searchWoeid was called with
  limitOpt,   \* search: opts.limit of the call
  spc,        \* search: "idle", "load" while loadWoeidIndex runs, or "done"
  sres,       \* search: what searchWoeid returned or threw
  table,      \* table: headers, rows and options renderTable was called with
  tpc,        \* table: "idle", "shrink" inside the loop of shrinkWidthsToFit, "done"
  widths,     \* table: column widths (out of shrinkWidthsToFit while it runs)
  minWidths,  \* table: minimum width of each column
  lines,      \* table: the lines renderTable returned
  post,       \* text: the post formatPostText was called with
  shown,      \* text: what formatPostText returned
  apiResponse,   \* media: the response collectPostMedia was called with
  collected,  \* media: what collectPostMedia returned
  assets,     \* download: the assets downloadPostMediaAssets was called with
  dpc,        \* download: "idle", "loop" inside the for loop, "done" or "threw"
  deduped,    \* download: the assets the loop has still to visit
  report,     \* download: the report being built, returned at "done"
  fetched,    \* download: the URLs fetch was called with, in order
  disk        \* download: the files written, path and the URL its bytes came from

parseVars == <<inp, source, userRes, postRes>>

cliVars == <<positionals, g, env, pc, frame, exitCode, stdout, stderr, clients, requests>>

woeidVars == <<now, cacheFile, wpc, call, remote, fetches, writes, wres>>

searchVars == <<query, limitOpt, spc, sres>>

tableVars == <<table, tpc, widths, minWidths, lines>>

textVars == <<post, shown>>

mediaVars == <<apiResponse, collected, assets, dpc, deduped, report, fetched, disk>>

viewVars == <<searchVars, tableVars, textVars, mediaVars>>

vars == <<inp, source, userRes, postRes, positionals, g, env, pc, frame, exitCode,
          stdout, stderr, clients, requests, now, cacheFile, wpc, call, remote,
          fetches, writes, wres, query, limitOpt, spc, sres, table, tpc, widths,
          minWidths, lines, post, shown, apiResponse, collected, assets, dpc, deduped,
          report, fetched, disk>>

\* searchWoeid has not been called.
SearchIdle ==
  /\ query = <<>>
  /\ limitOpt = [given |-> FALSE, n |-> 0]
  /\ spc = "idle"
  /\ sres = [status |-> "none", rows |-> <<>>]

\* renderTable has not been called.
TableIdle ==
  /\ table = [headers |-> <<>>, rows |-> <<>>, opts |-> <<>>]
  /\ tpc = "idle"
  /\ widths = <<>>
  /\ minWidths = <<>>
  /\ lines = <<>>

\* formatPostText has not been called.
TextIdle ==
  /\ post = <<>>
  /\ shown = [done |-> FALSE, text |-> <<>>]

\* collectPostMedia and downloadPostMediaAssets have not been called.
MediaIdle ==
  /\ apiResponse = <<>>
  /\ collected = [done |-> FALSE, summaries |-> <<>>, downloadable |-> <<>>]
  /\ assets = <<>>
  /\ dpc = "idle"
  /\ deduped = <<>>
  /\ report = [outputDir |-> <<>>, attempted |-> 0, downloaded |-> 0, failed |-> 0,
               files |-> <<>>, errors |-> <<>>]
  /\ fetched = <<>>
  /\ disk = {}

ViewIdle == SearchIdle /\ TableIdle /\ TextIdle /\ MediaIdle

(***************************************************************************)
(* Classifier inputs.  An input is scheme ++ head ++ "/"seg1 ++ ... ++     *)
(* tail; for a URL the head is the authority, for other inputs it is the   *)
(* whole text.                                                             *)
(***************************************************************************)

MaxSegs == 3

MaxTextLen == 3

Rep(c, n) == [i \in 1..n |-> c]

SeqsUpTo(S, n) == UNION {[1..k -> S] : k \in 0..n}

Authorities ==
  {<<"x",".","c","o","m">>, <<"X",".","C","O","M">>, <<"w","w","w",".","x",".","c","o","m">>, <<"t","w","i","t","t","e","r",".","c","o","m">>, <<"W","W","W",".","T","w","i","t","t","e","r",".","C","o","m">>,
   <<"m","o","b","i","l","e",".","x",".","c","o","m">>, <<"w","w","w",".","w","w","w",".","x",".","c","o","m">>, <<"w","w","w","x",".","c","o","m">>, <<"x",".","c","o","m",".">>, <<"e","v","i","l",".","c","o","m">>,
   <<"x",".","c","o","m","@","e","v","i","l",".","c","o","m">>, <<"e","v","i","l",".","c","o","m","@","x",".","c","o","m">>, <<"x",".","c","o","m",":","8","0","8","0">>, <<"x",".","c","o","m",":","9","9","9","9","9">>,
   <<"x",".","c","o","m",":","p","o","r","t">>, <<"x"," ","c","o","m">>, <<"@">>, <<>>}

SegPool == {<<"b","o","b">>, <<"A","l","_","1">>, <<"s","t","a","t","u","s">>, <<"1","2","3">>, <<"i">>, <<"H","o","m","e">>, <<"%","z","z">>}

Tails == {<<>>, <<"?","r","e","f","=","/","s","t","a","t","u","s","/","9">>, <<"#","/","s","t","a","t","u","s","/","9">>}

TextAlphabet == {"1", "a", "Z", "_", "@", " ", "-"}

LongNames ==
  {Rep("a", UsernameMaxLen), Rep("a", UsernameMaxLen + 1),
   <<"@">> \o Rep("a", UsernameMaxLen), <<"@">> \o Rep("a", UsernameMaxLen + 1),
   Rep("7", UsernameMaxLen + 1)}

UrlHostInputs ==
  [scheme : {<<"h","t","t","p",":","/","/">>, <<"h","t","t","p","s",":","/","/">>, <<"H","T","T","P","S",":","/","/">>},
   head : Authorities,
   segs : {<<>>, <<<<"b","o","b">>>>, <<<<"b","o","b">>, <<"s","t","a","t","u","s">>, <<"1","2","3">>>>, <<<<"b","o","b">>, <<".",".">>>>,
           <<<<"@","b","o","b">>>>, <<<<"%","4","0","b","o","b">>>>, <<<<>>>>, <<<<>>, <<"b","o","b">>, <<>>>>,
           <<<<"i">>, <<"w","e","b">>, <<"s","t","a","t","u","s">>, <<"1","2","3">>>>, <<<<"i">>, <<"u","s","e","r">>, <<"1","2","3">>>>,
           <<<<"i">>, <<"u","s","e","r">>, <<"b","o","b">>>>, <<<<"%","E","0","%","A","4","%","A">>>>,
           <<<<"%","C","3","%","A","9">>, <<"s","t","a","t","u","s">>, <<"1">>>>,
           <<Rep("a", UsernameMaxLen), <<"s","t","a","t","u","s">>, <<"5">>>>,
           <<Rep("a", UsernameMaxLen + 1), <<"s","t","a","t","u","s">>, <<"5">>>>},
   tail : Tails]

UrlPathInputs ==
  [scheme : {<<"h","t","t","p","s",":","/","/">>},
   head : {<<"x",".","c","o","m">>, <<"W","W","W",".","T","w","i","t","t","e","r",".","C","o","m">>, <<"e","v","i","l",".","c","o","m">>},
   segs : SeqsUpTo(SegPool, MaxSegs),
   tail : {<<>>, <<"?","r","e","f","=","/","s","t","a","t","u","s","/","9">>}]

TextInputs ==
  [scheme : {<<>>},
   head : SeqsUpTo(TextAlphabet, MaxTextLen) \cup LongNames \cup {<<"h","t","t","p",":","/","x",".","c","o","m","/","b","o","b">>},
   segs : {<<>>},
   tail : {<<>>}]

Inputs == UrlHostInputs \cup UrlPathInputs \cup TextInputs

RECURSIVE JoinSegs(_)
JoinSegs(segs) ==
  IF Len(segs) = 0 THEN <<>> ELSE <<"/">> \o Head(segs) \o JoinSegs(Tail(segs))

Build(i) == i.scheme \o i.head \o JoinSegs(i.segs) \o i.tail

NoResult == Result("none", <<>>, <<>>, "")

(***************************************************************************)
(* internal/parsing.ts: bearer-token lookup.                               *)
(***************************************************************************)

\* The value undefined where a string is expected.
UndefinedStr == <<"<undefined>">>

\* readConfigFile: cfg.state is what is found at CONFIG_PATH
\*   "absent"      no file
\*   "invalidJson" a file JSON.parse rejects
\*   "notObject"   JSON that is null, an array or a scalar
\*   "badToken"    an object whose bearerToken is not a string
\*   "object"      an object whose bearerToken is cfg.bearerToken (or undefined)
readConfigFile(cfg) ==
  CASE cfg.state = "absent" ->
         [threw |-> FALSE, msg |-> "", bearerToken |-> UndefinedStr]
    [] cfg.state = "invalidJson" ->
         [threw |-> TRUE, msg |-> "Invalid JSON in config", bearerToken |-> UndefinedStr]
    [] cfg.state = "notObject" ->
         [threw |-> TRUE, msg |-> "Invalid config: expected a JSON object.",
          bearerToken |-> UndefinedStr]
    [] cfg.state = "badToken" ->
         [threw |-> TRUE, msg |-> "Invalid config: bearerToken must be a string.",
          bearerToken |-> UndefinedStr]
    [] OTHER ->
         [threw |-> FALSE, msg |-> "",
          bearerToken |-> IF cfg.bearerToken # UndefinedStr /\ Len(trim(cfg.bearerToken)) > 0
                          THEN trim(cfg.bearerToken) ELSE UndefinedStr]

RECURSIVE firstNonEmpty(_)
firstNonEmpty(values) ==
  IF Len(values) = 0 THEN UndefinedStr
  ELSE IF Head(values) # UndefinedStr /\ Len(trim(Head(values))) > 0 THEN trim(Head(values))
  ELSE firstNonEmpty(Tail(values))

getBearerToken(cliOverride, e) ==
  With(readConfigFile(e.config), LAMBDA config :
    IF config.threw THEN [threw |-> TRUE, msg |-> config.msg, token |-> UndefinedStr]
    ELSE With(firstNonEmpty(<<cliOverride, e.X_API_BEARER_TOKEN, e.BEARER_TOKEN,
                              config.bearerToken>>), LAMBDA token :
      IF token = UndefinedStr
      THEN [threw |-> TRUE, msg |-> "Missing bearer token.", token |-> UndefinedStr]
      ELSE [threw |-> FALSE, msg |-> "", token |-> token]))

(***************************************************************************)
(* cli.ts: main, runUsersCommand, runPostsCommand.  The code between two   *)
(* awaits runs without interruption, so each operator below computes the   *)
(* effect of one such stretch: what it wrote, the request it issued and    *)
(* where it stopped.                                                       *)
(***************************************************************************)

LookupLimit == 100

USER_SUBCOMMANDS == {<<"b","y","-","i","d">>, <<"b","y","-","i","d","s">>, <<"b","y","-","u","s","e","r","n","a","m","e">>, <<"b","y","-","u","s","e","r","n","a","m","e","s">>}

POST_SUBCOMMANDS == {<<"b","y","-","i","d">>, <<"b","y","-","i","d","s">>}

\* A line on standard error.
\*   "invalid"  Invalid input '<source>': <text>
\*   "error"    a fixed message <text>
\*   "config"   the message of a ConfigError; for the size limit text is the
\*              label and n the number of values
\*   "api"      the report of printApiError in human mode
\*   "thrown"   the message of any other error that was caught
ErrLine(kind, src, text, n) == [kind |-> kind, source |-> src, text |-> text, n |-> n]

\* A write to standard output.
\*   "help"  a help screen (topic)      "data"  printData of n merged responses
\*   "raw"   printRawData of n responses "api"  printApiError in a JSON mode
OutLine(kind, topic, n) == [kind |-> kind, topic |-> topic, n |-> n]

Request(method, list) == [method |-> method, list |-> list]

NoFrame == [topic |-> "", ids |-> <<>>, usernames |-> <<>>, responses |-> 0]

Frame(topic, ids, usernames, responses) ==
  [topic |-> topic, ids |-> ids, usernames |-> usernames, responses |-> responses]

\* The stretch ended with `return code`.
Return(code, err, out) ==
  [pc |-> "done", exit |-> code, err |-> err, out |-> out, clients |-> 0,
   requests |-> <<>>, frame |-> NoFrame]

\* The stretch built the client, issued a request and is suspended at `at`.
Await(at, req, fr) ==
  [pc |-> at, exit |-> -1, err |-> <<>>, out |-> <<>>, clients |-> 1,
   requests |-> <<req>>, frame |-> fr]

\* catch (err) of both commands, for a ConfigError.
CatchConfig(text, n) == Return(1, <<ErrLine("config", <<>>, text, n)>>, <<>>)

\* requireAtMost100 that already rejects the hundredth value.
requireAtMost100_Inclusive(values) == Len(values) >= LookupLimit

requireAtMost100(values) == Len(values) > LookupLimit

\* clientFactory() then the first request: createXClient reads the token
\* before it constructs the Client and throws ConfigError without one.
WithClient(opts, e, at, req, fr) ==
  With(getBearerToken(opts.bearerToken, e), LAMBDA t :
    IF t.threw THEN CatchConfig(t.msg, 0) ELSE Await(at, req, fr))

Values(parsed, kind) ==
  LET sel == SelectSeq(parsed, LAMBDA x : x.kind = kind)
  IN  [i \in 1..Len(sel) |-> sel[i].value]

InvalidLines(parsed) ==
  LET invalid == SelectSeq(parsed, LAMBDA x : x.kind = "invalid")
  IN  [i \in 1..Len(invalid) |-> ErrLine("invalid", invalid[i].source, invalid[i].reason, 0)]

\* args.map(parser) raised: the catch prints the message and returns 2.
MapThrew(parsed) == \E i \in 1..Len(parsed) : parsed[i].kind = "throw"

CatchThrown == Return(2, <<ErrLine("thrown", <<>>, "URI malformed", 0)>>, <<>>)

\* The inferred mode of runUsersCommand for the classified arguments.
usersInferred(parsed, opts, e) ==
  IF MapThrew(parsed) THEN CatchThrown
  ELSE IF \E i \in 1..Len(parsed) : parsed[i].kind = "invalid"
  THEN Return(1, InvalidLines(parsed), <<>>)
  ELSE With(dedupe(Values(parsed, "id")), LAMBDA ids :
       With(dedupe(Values(parsed, "username")), LAMBDA usernames :
         IF Len(ids) = 0 /\ Len(usernames) = 0
         THEN Return(1, <<ErrLine("error", <<>>, "No valid user inputs found.", 0)>>, <<>>)
         ELSE IF requireAtMost100(ids) THEN CatchConfig("users IDs", Len(ids))
         ELSE IF requireAtMost100(usernames)
         THEN CatchConfig("users usernames", Len(usernames))
         ELSE IF Len(ids) > 0
         THEN WithClient(opts, e, "usersGetByIds", Request("users.getByIds", ids),
                         Frame("users", ids, usernames, 0))
         ELSE WithClient(opts, e, "usersGetByUsernames",
                         Request("users.getByUsernames", usernames),
                         Frame("users", ids, usernames, 0))))

runUsersCommand(args, opts, e) ==
  LET first == args[1]
      subArgs == Tail(args)
      arg1 == IF Len(args) > 1 THEN args[2] ELSE <<>>
  IN  IF first = <<"b","y","-","i","d">>
      THEN IF Len(arg1) = 0
           THEN Return(1, <<ErrLine("error", <<>>, "Missing required <id>.", 0)>>, <<>>)
           ELSE WithClient(opts, e, "lookup", Request("users.getById", <<arg1>>),
                           Frame("users", <<>>, <<>>, 0))
      ELSE IF first = <<"b","y","-","u","s","e","r","n","a","m","e">>
      THEN IF Len(arg1) = 0
           THEN Return(1, <<ErrLine("error", <<>>, "Missing required <username>.", 0)>>, <<>>)
           ELSE WithClient(opts, e, "lookup",
                           Request("users.getByUsername", <<normalizeUsername(arg1)>>),
                           Frame("users", <<>>, <<>>, 0))
      ELSE IF first = <<"b","y","-","i","d","s">>
      THEN With(dedupe(subArgs), LAMBDA ids :
             IF Len(ids) = 0
             THEN Return(1, <<ErrLine("error", <<>>, "Missing required <id...>.", 0)>>, <<>>)
             ELSE IF requireAtMost100(ids) THEN CatchConfig("users by-ids", Len(ids))
             ELSE WithClient(opts, e, "lookup", Request("users.getByIds", ids),
                             Frame("users", <<>>, <<>>, 0)))
      ELSE IF first = <<"b","y","-","u","s","e","r","n","a","m","e","s">>
      THEN With(dedupe([i \in 1..Len(subArgs) |-> normalizeUsername(subArgs[i])]),
                LAMBDA usernames :
             IF Len(usernames) = 0
             THEN Return(1, <<ErrLine("error", <<>>, "Missing required <username...>.", 0)>>,
                         <<>>)
             ELSE IF requireAtMost100(usernames)
             THEN CatchConfig("users by-usernames", Len(usernames))
             ELSE WithClient(opts, e, "lookup", Request("users.getByUsernames", usernames),
                             Frame("users", <<>>, <<>>, 0)))
      ELSE usersInferred([i \in 1..Len(args) |-> parseUserInput(args[i])], opts, e)

\* The by-ids and the inferred mode of runPostsCommand for the classified
\* arguments: they differ in the label of the size limit and in the message
\* for an empty list.
postsLookup(parsed, opts, e, label, missing) ==
  IF \E i \in 1..Len(parsed) : parsed[i].kind = "invalid"
  THEN Return(1, InvalidLines(parsed), <<>>)
  ELSE With(dedupe(Values(parsed, "id")), LAMBDA ids :
         IF Len(ids) = 0 THEN Return(1, <<ErrLine("error", <<>>, missing, 0)>>, <<>>)
         ELSE IF requireAtMost100(ids) THEN CatchConfig(label, Len(ids))
         ELSE WithClient(opts, e, "lookup", Request("posts.getByIds", ids),
                         Frame("posts", <<>>, <<>>, 0)))

runPostsCommand(args, opts, e) ==
  LET first == args[1]
      subArgs == Tail(args)
  IN  IF first = <<"b","y","-","i","d">>
      THEN IF Len(args) < 2 \/ Len(args[2]) = 0
           THEN Return(1, <<ErrLine("error", <<>>, "Missing required <id|url>.", 0)>>, <<>>)
           ELSE With(parsePostInput(args[2]), LAMBDA parsed :
                  IF parsed.kind = "invalid"
                  THEN Return(1, <<ErrLine("invalid", parsed.source, parsed.reason, 0)>>, <<>>)
                  ELSE WithClient(opts, e, "lookup", Request("posts.getById", <<parsed.value>>),
                                  Frame("posts", <<>>, <<>>, 0)))
      ELSE IF first = <<"b","y","-","i","d","s">>
      THEN postsLookup([i \in 1..Len(subArgs) |-> parsePostInput(subArgs[i])], opts, e,
                       "posts by-ids", "Missing required <id...>.")
      ELSE postsLookup([i \in 1..Len(args) |-> parsePostInput(args[i])], opts, e,
                       "posts IDs", "No valid post inputs found.")

Help(topic) == Return(0, <<>>, <<OutLine("help", topic, 0)>>)

main(p, opts, e) ==
  LET cmd == IF Len(p) > 0 THEN p[1] ELSE UndefinedStr
      cmdArgs == IF Len(p) > 0 THEN Tail(p) ELSE <<>>
  IN  IF cmd = UndefinedStr THEN Help("root")
      ELSE IF opts.help \/ opts.helpAll
      THEN IF cmd = <<"u","s","e","r","s">> THEN Help("users")
           ELSE IF cmd = <<"p","o","s","t","s">> THEN Help("posts")
           ELSE IF cmd = <<"f","i","e","l","d","s">> THEN Help("fields")
           ELSE Help("root")
      ELSE IF cmd = <<"f","i","e","l","d","s">> THEN Help("fields")
      ELSE IF cmd = <<"u","s","e","r","s">> \/ cmd = <<"p","o","s","t","s">>
      THEN IF Len(cmdArgs) = 0 THEN Help(IF cmd = <<"u","s","e","r","s">> THEN "users" ELSE "posts")
           ELSE IF cmd = <<"u","s","e","r","s">> THEN runUsersCommand(cmdArgs, opts, e)
           ELSE runPostsCommand(cmdArgs, opts, e)
      ELSE Return(1, <<ErrLine("error", cmd, "Unknown command", 0)>>,
                  <<OutLine("help", "root", 0)>>)

(***************************************************************************)
(* internal/woeid.ts: the WOEID index, its cache file and its loader.      *)
(*                                                                         *)
(* A JSON text is either something JSON.parse rejects or a JSON value; of  *)
(* the values only arrays of items matter.  An item is an object with the  *)
(* keys the code reads or writes, or something that is not an object.      *)
(***************************************************************************)

CACHE_MAX_AGE_MS == 7 * 24 * 60 * 60 * 1000

\* JSON member values: absent, a string, a finite number (integer part n,
\* whole = FALSE when it has a fractional part).
Absent == [t |-> "absent", s |-> <<>>, n |-> 0, whole |-> TRUE]

Str(s) == [t |-> "str", s |-> s, n |-> 0, whole |-> TRUE]

Num(n, whole) == [t |-> "num", s |-> <<>>, n |-> n, whole |-> whole]

\* An item of the array that is an object.
Row(placeName, country, type, woeid, countryCode) ==
  [object |-> TRUE, place_name |-> placeName, country |-> country, type |-> type,
   woeid |-> woeid, country_code |-> countryCode,
   placeName |-> Absent, placeType |-> Absent, countryCode |-> Absent]

\* An item that is null, an array or a scalar.
NotAnObject ==
  [Row(Absent, Absent, Absent, Absent, Absent) EXCEPT !.object = FALSE]

GarbageText == [kind |-> "garbage", array |-> FALSE, items |-> <<>>]

\* JSON text of a value that is not an array.
ObjectText == [kind |-> "json", array |-> FALSE, items |-> <<>>]

ArrayText(items) == [kind |-> "json", array |-> TRUE, items |-> items]

\* A JavaScript number: NaN, or a finite number with integer part n.
NaN == [finite |-> FALSE, n |-> 0]

Finite(n) == [finite |-> TRUE, n |-> n]

RECURSIVE DecimalValue(_)
DecimalValue(ds) ==
  IF Len(ds) = 0 THEN 0
  ELSE 10 * DecimalValue(Take(ds, Len(ds) - 1)) + (CodeOf(ds[Len(ds)]) - 48)

AllDigits(x) == \A i \in 1..Len(x) : x[i] \in Digits

\* The value of an unsigned decimal literal digits[.digits], NaN otherwise.
UnsignedValue(body) ==
  IF /\ AllDigits(TakeUntil(body, {"."}))
     /\ AllDigits(DropThrough(body, {"."}))
     /\ Len(SelectSeq(body, LAMBDA c : c \in Digits)) > 0
  THEN Finite(DecimalValue(TakeUntil(body, {"."})))
  ELSE NaN

\* Number(string) for decimal literals: white space is trimmed, the empty
\* string is 0, [+-]digits[.digits] is its value (integer part), anything
\* else is NaN.
Number(str) ==
  With(trim(str), LAMBDA t :
    IF Len(t) = 0 THEN Finite(0)
    ELSE IF t[1] = "-"
    THEN With(UnsignedValue(Tail(t)), LAMBDA u : [u EXCEPT !.n = 0 - @])
    ELSE IF t[1] = "+" THEN UnsignedValue(Tail(t))
    ELSE UnsignedValue(t))

WoeidRecord(placeName, country, placeType, woeid, countryCode) ==
  [placeName |-> placeName, country |-> country, placeType |-> placeType,
   woeid |-> woeid, countryCode |-> countryCode]

\* typeof v === "string" ? v.trim() : ""
textOf(v) == IF v.t = "str" THEN trim(v.s) ELSE <<>>

\* Number(item.woeid)
woeidOf(v) ==
  IF v.t = "num" THEN Finite(v.n) ELSE IF v.t = "str" THEN Number(v.s) ELSE NaN

\* The record parseWoeidRows builds from an object item; keep = FALSE when
\* the item is skipped.
rowRecord(row) ==
  With(woeidOf(row.woeid), LAMBDA woeid :
  With(textOf(row.place_name), LAMBDA placeName :
    [keep |-> Len(placeName) > 0 /\ woeid.finite,
     rec |-> WoeidRecord(placeName, textOf(row.country), textOf(row.type), woeid.n,
                         IF row.country_code.t = "str" THEN row.country_code.s
                         ELSE UndefinedStr)]))

\* parseWoeidRows(JSON.parse(text)): threw stands for the SyntaxError of
\* JSON.parse and for the two errors parseWoeidRows raises.
parseWoeidRows(text) ==
  IF text.kind # "json" \/ ~text.array THEN [threw |-> TRUE, rows |-> <<>>]
  ELSE With([i \in 1..Len(text.items) |->
               IF text.items[i].object THEN rowRecord(text.items[i])
               ELSE [keep |-> FALSE, rec |-> <<>>]], LAMBDA records :
       With(SelectSeq(records, LAMBDA r : r.keep), LAMBDA kept :
         IF Len(kept) = 0 THEN [threw |-> TRUE, rows |-> <<>>]
         ELSE [threw |-> FALSE, rows |-> [i \in 1..Len(kept) |-> kept[i].rec]]))

\* JSON.stringify of one WoeidRecord, read back by JSON.parse: the members
\* carry the property names of the record; an undefined member is omitted.
stringifyRecord(rec) ==
  [object |-> TRUE, place_name |-> Absent, country |-> Str(rec.country), type |-> Absent,
   woeid |-> Num(rec.woeid, TRUE), country_code |-> Absent,
   placeName |-> Str(rec.placeName), placeType |-> Str(rec.placeType),
   countryCode |-> IF rec.countryCode = UndefinedStr THEN Absent ELSE Str(rec.countryCode)]

\* JSON.stringify(data) as writeCache writes it.
stringify(data) == ArrayText([i \in 1..Len(data) |-> stringifyRecord(data[i])])

NoFile == [exists |-> FALSE, mtimeMs |-> 0, text |-> GarbageText]

\* tryReadCache that compares the age in milliseconds with the limit in seconds.
tryReadCache_Seconds(allowStale, file, clock) ==
  IF ~file.exists THEN [some |-> FALSE, rows |-> <<>>]
  ELSE IF ~allowStale /\ clock - file.mtimeMs > CACHE_MAX_AGE_MS \div 1000
  THEN [some |-> FALSE, rows |-> <<>>]
  ELSE With(parseWoeidRows(file.text), LAMBDA parsed :
         IF parsed.threw THEN [some |-> FALSE, rows |-> <<>>]
         ELSE [some |-> TRUE, rows |-> parsed.rows])

\* tryReadCache(allowStale) for the file and clock given: stat or readFile
\* failing, a file too old, and text that does not decode all give undefined.
tryReadCache(allowStale, file, clock) ==
  IF ~file.exists THEN [some |-> FALSE, rows |-> <<>>]
  ELSE IF ~allowStale /\ clock - file.mtimeMs > CACHE_MAX_AGE_MS
  THEN [some |-> FALSE, rows |-> <<>>]
  ELSE With(parseWoeidRows(file.text), LAMBDA parsed :
         IF parsed.threw THEN [some |-> FALSE, rows |-> <<>>]
         ELSE [some |-> TRUE, rows |-> parsed.rows])

\* fetchRemoteIndex for a response: "error" is a rejected fetch, "status" a
\* response that is not ok, "body" a response whose JSON text is body.
fetchRemoteIndex(response) ==
  IF response.kind # "body" THEN [threw |-> TRUE, rows |-> <<>>]
  ELSE parseWoeidRows(response.body)

(***************************************************************************)
(* Invocations of main.                                                    *)
(***************************************************************************)

MaxArgs == 2

\* Positional arguments after the command name.
ArgPool ==
  {<<"1","2","3">>, <<"b","o","b">>, <<"@","b","o","b">>, <<"a"," ","b">>, <<"h","t","t","p","s",":","/","/","x",".","c","o","m","/","A","l","_","1","/","s","t","a","t","u","s","/","5">>, <<"h","t","t","p","s",":","/","/","x",".","c","o","m","/","%","z","z">>}

Subcommands == {<<<<"b","y","-","i","d">>>>, <<<<"b","y","-","i","d","s">>>>, <<<<"b","y","-","u","s","e","r","n","a","m","e">>>>, <<<<"b","y","-","u","s","e","r","n","a","m","e","s">>>>}

RECURSIVE Decimal(_)
\* The decimal digits of a natural number.
Decimal(n) ==
  IF n < 10 THEN <<CharOf(48 + n)>> ELSE Decimal(n \div 10) \o <<CharOf(48 + (n % 10))>>

\* n distinct usernames, then m distinct IDs, then (dup) the first of them again.
Bulk(n, m, dup) ==
  LET names == [k \in 1..n |-> <<"u">> \o Decimal(k)]
      nums == [k \in 1..m |-> Decimal(1000 + k)]
      all == names \o nums
  IN  IF dup THEN all \o <<all[1], all[Len(all)]>> ELSE all

BulkSizes == {0, LookupLimit, LookupLimit + 1}

BulkArgs ==
  {Bulk(c[1], c[2], c[3]) :
     c \in {d \in BulkSizes \X BulkSizes \X BOOLEAN : d[1] + d[2] > 0}}

\* Arguments after an explicit subcommand.
SubArgPool == {<<"1","2","3">>, <<"@","b","o","b">>, <<"a"," ","b">>, <<"h","t","t","p","s",":","/","/","x",".","c","o","m","/","A","l","_","1","/","s","t","a","t","u","s","/","5">>}

ArgLists ==
  SeqsUpTo(ArgPool, MaxArgs)
    \cup {sub \o rest : sub \in Subcommands, rest \in SeqsUpTo(SubArgPool, MaxArgs)}
    \cup BulkArgs

Invocations ==
  {<<>>} \cup {<<cmd>> \o args : cmd \in {<<"u","s","e","r","s">>, <<"p","o","s","t","s">>}, args \in ArgLists}
         \cup {<<cmd>> \o args : cmd \in {<<"f","i","e","l","d","s">>, <<"b","o","g","u","s">>}, args \in {<<>>, <<<<"u","s","e","r","s">>>>}}

NoOptions ==
  [help |-> FALSE, helpAll |-> FALSE, json |-> FALSE, raw |-> FALSE,
   bearerToken |-> UndefinedStr]

NoConfig == [state |-> "absent", bearerToken |-> UndefinedStr]

NoEnv ==
  [X_API_BEARER_TOKEN |-> UndefinedStr, BEARER_TOKEN |-> UndefinedStr, config |-> NoConfig]

\* Option and environment combinations an invocation runs under.
Settings ==
  {[opts |-> NoOptions, env |-> NoEnv],
   [opts |-> [NoOptions EXCEPT !.bearerToken = <<" ","c","l","i","-","t","o","k","e","n"," ">>], env |-> NoEnv],
   [opts |-> [NoOptions EXCEPT !.json = TRUE],
    env |-> [NoEnv EXCEPT !.X_API_BEARER_TOKEN = <<"e","n","v","-","t","o","k","e","n">>]],
   [opts |-> [NoOptions EXCEPT !.raw = TRUE],
    env |-> [NoEnv EXCEPT !.BEARER_TOKEN = <<"e","n","v","-","t","o","k","e","n">>]],
   [opts |-> NoOptions,
    env |-> [NoEnv EXCEPT !.config = [state |-> "object", bearerToken |-> <<"f","i","l","e","-","t","o","k","e","n">>]]],
   [opts |-> [NoOptions EXCEPT !.bearerToken = <<"c","l","i","-","t","o","k","e","n">>],
    env |-> [NoEnv EXCEPT !.config = [state |-> "invalidJson", bearerToken |-> UndefinedStr]]],
   [opts |-> [NoOptions EXCEPT !.bearerToken = <<" ">>],
    env |-> [NoEnv EXCEPT !.BEARER_TOKEN = <<"e","n","v","-","t","o","k","e","n">>,
                          !.config = [state |-> "object", bearerToken |-> <<"f","i","l","e","-","t","o","k","e","n">>]]],
   [opts |-> [NoOptions EXCEPT !.help = TRUE], env |-> NoEnv],
   [opts |-> [NoOptions EXCEPT !.helpAll = TRUE], env |-> NoEnv]}

Outcomes == {"ok", "ApiError", "Error"}

\* main has not been called.
CliIdle ==
  /\ positionals = <<>>
  /\ g = NoOptions
  /\ env = NoEnv
  /\ pc = "idle"
  /\ frame = NoFrame
  /\ exitCode = -1
  /\ stdout = <<>>
  /\ stderr = <<>>
  /\ clients = 0
  /\ requests = <<>>

\* main(argv) up to its first await or its return.
Main(p, opts, e) ==
  /\ pc = "idle"
  /\ \E r \in {main(p, opts, e)} :
         /\ positionals' = p
         /\ g' = opts
         /\ env' = e
         /\ pc' = r.pc
         /\ frame' = r.frame
         /\ exitCode' = r.exit
         /\ stdout' = r.out
         /\ stderr' = r.err
         /\ clients' = r.clients
         /\ requests' = r.requests
  /\ UNCHANGED parseVars
  /\ UNCHANGED woeidVars
  /\ UNCHANGED viewVars

\* catch (err) of both commands for an error raised by an awaited request.
Failed(outcome) ==
  /\ pc' = "done"
  /\ exitCode' = 2
  /\ IF outcome = "ApiError" /\ g.json
     THEN stdout' = Append(stdout, OutLine("api", frame.topic, 0)) /\ stderr' = stderr
     ELSE /\ stderr' = Append(stderr, ErrLine(IF outcome = "ApiError" THEN "api" ELSE "thrown",
                                              <<>>, outcome, 0))
          /\ stdout' = stdout
  /\ UNCHANGED <<frame, requests>>

\* The stretch after the last request of a command succeeded.
Printed(n) ==
  /\ pc' = "done"
  /\ exitCode' = 0
  /\ stdout' = Append(stdout, OutLine(IF g.raw THEN "raw" ELSE "data", frame.topic, n))
  /\ stderr' = stderr

\* runUsersCommand, inferred mode: await client.users.getByIds(ids) returns.
UsersGetByIdsReturns(outcome) ==
  /\ pc = "usersGetByIds"
  /\ IF outcome # "ok" THEN Failed(outcome)
     ELSE IF Len(frame.usernames) > 0
     THEN /\ pc' = "usersGetByUsernames"
          /\ frame' = [frame EXCEPT !.responses = @ + 1]
          /\ requests' = Append(requests, Request("users.getByUsernames", frame.usernames))
          /\ UNCHANGED <<exitCode, stdout, stderr>>
     ELSE /\ Printed(frame.responses + 1)
          /\ frame' = [frame EXCEPT !.responses = @ + 1]
          /\ requests' = requests
  /\ UNCHANGED <<positionals, g, env, clients>>
  /\ UNCHANGED parseVars
  /\ UNCHANGED woeidVars
  /\ UNCHANGED viewVars

\* runUsersCommand, inferred mode: await client.users.getByUsernames returns.
UsersGetByUsernamesReturns(outcome) ==
  /\ pc = "usersGetByUsernames"
  /\ IF outcome # "ok" THEN Failed(outcome)
     ELSE /\ Printed(frame.responses + 1)
          /\ frame' = [frame EXCEPT !.responses = @ + 1]
          /\ requests' = requests
  /\ UNCHANGED <<positionals, g, env, clients>>
  /\ UNCHANGED parseVars
  /\ UNCHANGED woeidVars
  /\ UNCHANGED viewVars

\* The single request of an explicit subcommand or of posts lookup returns.
LookupReturns(outcome) ==
  /\ pc = "lookup"
  /\ IF outcome # "ok" THEN Failed(outcome)
     ELSE /\ Printed(1)
          /\ frame' = [frame EXCEPT !.responses = @ + 1]
          /\ requests' = requests
  /\ UNCHANGED <<positionals, g, env, clients>>
  /\ UNCHANGED parseVars
  /\ UNCHANGED woeidVars
  /\ UNCHANGED viewVars

NextCli ==
  \/ \E p \in Invocations, s \in Settings : Main(p, s.opts, s.env)
  \/ \E outcome \in Outcomes : UsersGetByIdsReturns(outcome)
  \/ \E outcome \in Outcomes : UsersGetByUsernamesReturns(outcome)
  \/ \E outcome \in Outcomes : LookupReturns(outcome)

(***************************************************************************)
(* Calls of loadWoeidIndex.                                                *)
(***************************************************************************)

MaxRows == 2

MaxCalls == 2

Tokyo == Row(Str(<<"T","o","k","y","o">>), Str(<<"J","a","p","a","n">>), Str(<<"T","o","w","n">>), Num(1118370, TRUE), Str(<<"J","P">>))

\* Items a cache file or a response body is made of.
ItemPool ==
  {Tokyo,
   Row(Str(<<" ","J","a","p","a","n"," ">>), Str(<<>>), Str(<<"C","o","u","n","t","r","y">>), Str(<<"2","3","4","2","4","8","5","6">>), Absent),
   Row(Str(<<" "," ">>), Str(<<"J","a","p","a","n">>), Str(<<"T","o","w","n">>), Num(7, TRUE), Absent),
   Row(Str(<<"O","s","a","k","a">>), Str(<<"J","a","p","a","n">>), Str(<<"T","o","w","n">>), Str(<<"n","/","a">>), Absent),
   Row(Str(<<"N","o","w","h","e","r","e">>), Absent, Absent, Num(0, FALSE), Absent),
   stringifyRecord(rowRecord(Tokyo).rec),
   NotAnObject}

Texts == {GarbageText, ObjectText} \cup {ArrayText(items) : items \in SeqsUpTo(ItemPool, MaxRows)}

\* The clock when the first call may begin: late enough for the oldest file.
StartMs == CACHE_MAX_AGE_MS + 1

Ages == {0, CACHE_MAX_AGE_MS - 1, CACHE_MAX_AGE_MS, CACHE_MAX_AGE_MS + 1}

\* The clock values calls are made at.
Clocks == {StartMs + a : a \in Ages \cup {1}}

Files == {NoFile} \cup [exists : {TRUE}, mtimeMs : {StartMs - a : a \in Ages}, text : Texts]

Responses ==
  {[kind |-> "error", body |-> GarbageText], [kind |-> "status", body |-> GarbageText]}
  \cup [kind : {"body"},
        body : {GarbageText, ObjectText, ArrayText(<<>>), ArrayText(<<Tokyo>>),
                ArrayText(<<NotAnObject, Tokyo, Tokyo>>)}]

NoIndex == [status |-> "none", from |-> "", rows |-> <<>>]

Returned(from, rows) == [status |-> "ok", from |-> from, rows |-> rows]

Thrown == [status |-> "error", from |-> "", rows |-> <<>>]

\* No call of loadWoeidIndex has been made.
WoeidIdle ==
  /\ now = StartMs
  /\ cacheFile = NoFile
  /\ wpc = "idle"
  /\ call = [n |-> 0, file |-> NoFile, clock |-> 0]
  /\ remote = <<>>
  /\ fetches = 0
  /\ writes = 0
  /\ wres = NoIndex

\* The clock advances between two calls.
TimePasses(d) ==
  /\ wpc = "idle"
  /\ now + d \in Clocks
  /\ now' = now + d
  /\ UNCHANGED <<cacheFile, wpc, call, remote, fetches, writes, wres>>
  /\ UNCHANGED <<parseVars, cliVars>>
  /\ UNCHANGED viewVars

\* loadWoeidIndex() is called and suspends in tryReadCache(false).
LoadWoeidIndex ==
  /\ wpc = "idle"
  /\ call.n < MaxCalls
  /\ wpc' = "fresh"
  /\ call' = [n |-> call.n + 1, file |-> cacheFile, clock |-> now]
  /\ remote' = <<>>
  /\ fetches' = 0
  /\ writes' = 0
  /\ wres' = NoIndex
  /\ UNCHANGED <<now, cacheFile>>
  /\ UNCHANGED <<parseVars, cliVars>>
  /\ UNCHANGED viewVars

\* tryReadCache(false) resolves: return the fresh cache or start the fetch.
FreshCacheRead ==
  /\ wpc = "fresh"
  /\ \E freshCache \in {tryReadCache(FALSE, cacheFile, now)} :
         IF freshCache.some
         THEN /\ wpc' = "idle"
              /\ wres' = Returned("cache", freshCache.rows)
              /\ fetches' = fetches
         ELSE /\ wpc' = "fetch"
              /\ wres' = wres
              /\ fetches' = fetches + 1
  /\ UNCHANGED <<now, cacheFile, call, remote, writes>>
  /\ UNCHANGED <<parseVars, cliVars>>
  /\ UNCHANGED viewVars

\* fetchRemoteIndex() settles: on success go on to writeCache, else to the catch.
FetchSettles(response) ==
  /\ wpc = "fetch"
  /\ \E r \in {fetchRemoteIndex(response)} :
         IF r.threw
         THEN wpc' = "stale" /\ remote' = remote
         ELSE wpc' = "write" /\ remote' = r.rows
  /\ UNCHANGED <<now, cacheFile, call, fetches, writes, wres>>
  /\ UNCHANGED <<parseVars, cliVars>>
  /\ UNCHANGED viewVars

\* writeCache(remote) settles: mkdir and writeFile succeeded (ok) or one of
\* them rejected, which lands in the catch of loadWoeidIndex.
WriteCacheSettles(ok) ==
  /\ wpc = "write"
  /\ IF ok
     THEN /\ cacheFile' = [exists |-> TRUE, mtimeMs |-> now, text |-> stringify(remote)]
          /\ writes' = writes + 1
          /\ wpc' = "idle"
          /\ wres' = Returned("network", remote)
     ELSE /\ wpc' = "stale"
          /\ UNCHANGED <<cacheFile, writes, wres>>
  /\ UNCHANGED <<now, call, remote, fetches>>
  /\ UNCHANGED <<parseVars, cliVars>>
  /\ UNCHANGED viewVars

\* tryReadCache(true) resolves in the catch: return the cache or throw.
StaleCacheRead ==
  /\ wpc = "stale"
  /\ \E staleCache \in {tryReadCache(TRUE, cacheFile, now)} :
         wres' = IF staleCache.some THEN Returned("stale", staleCache.rows) ELSE Thrown
  /\ wpc' = "idle"
  /\ UNCHANGED <<now, cacheFile, call, remote, fetches, writes>>
  /\ UNCHANGED <<parseVars, cliVars>>
  /\ UNCHANGED viewVars

NextWoeid ==
  \/ \E d \in {1, CACHE_MAX_AGE_MS - 1} : TimePasses(d)
  \/ LoadWoeidIndex
  \/ FreshCacheRead
  \/ \E response \in Responses : FetchSettles(response)
  \/ \E ok \in BOOLEAN : WriteCacheSettles(ok)
  \/ StaleCacheRead

(***************************************************************************)
(* Classification harness: an input is drawn, then each resolver is        *)
(* applied to it once.                                                     *)
(***************************************************************************)

EmptyInput == [scheme |-> <<>>, head |-> <<>>, segs |-> <<>>, tail |-> <<>>]

\* No classifier input is under test.
ParseIdle ==
  /\ inp = EmptyInput
  /\ source = <<>>
  /\ userRes = NoResult
  /\ postRes = NoResult

InitParse ==
  /\ inp \in Inputs
  /\ source = Build(inp)
  /\ userRes = NoResult
  /\ postRes = NoResult
  /\ CliIdle
  /\ WoeidIdle
  /\ ViewIdle

ParseUserInput ==
  /\ userRes.kind = "none"
  /\ userRes' = parseUserInput(source)
  /\ UNCHANGED <<inp, source, postRes>>
  /\ UNCHANGED cliVars
  /\ UNCHANGED woeidVars
  /\ UNCHANGED viewVars

ParsePostInput ==
  /\ postRes.kind = "none"
  /\ postRes' = parsePostInput(source)
  /\ UNCHANGED <<inp, source, userRes>>
  /\ UNCHANGED cliVars
  /\ UNCHANGED woeidVars
  /\ UNCHANGED viewVars

NextParse == ParseUserInput \/ ParsePostInput

SpecParse == InitParse /\ [][NextParse]_vars

\* A process that is about to call main.
InitCli == ParseIdle /\ CliIdle /\ WoeidIdle /\ ViewIdle

SpecCli == InitCli /\ [][NextCli]_vars

\* A process that is about to call loadWoeidIndex, with any file at the
\* cache path.
InitWoeid ==
  /\ ParseIdle
  /\ CliIdle
  /\ now = StartMs
  /\ cacheFile \in Files
  /\ wpc = "idle"
  /\ call = [n |-> 0, file |-> NoFile, clock |-> 0]
  /\ remote = <<>>
  /\ fetches = 0
  /\ writes = 0
  /\ wres = NoIndex
  /\ ViewIdle

SpecWoeid == InitWoeid /\ [][NextWoeid]_vars

(***************************************************************************)
(* Properties of the classifiers, checked under SpecParse.                 *)
(***************************************************************************)

\* The input under test starts with http:// or https://.
UrlInput == inp.scheme \in {<<"h","t","t","p",":","/","/">>, <<"h","t","t","p","s",":","/","/">>}

\* The input under test is a URL whose authority is a spelling of x.com or
\* twitter.com, with or without www., and nothing else.
OnAcceptedHost ==
  /\ UrlInput
  /\ toLowerCase(inp.head) \in {<<"x",".","c","o","m">>, <<"w","w","w",".","x",".","c","o","m">>, <<"t","w","i","t","t","e","r",".","c","o","m">>, <<"w","w","w",".","t","w","i","t","t","e","r",".","c","o","m">>}

\* 1 to 50 characters from [A-Za-z0-9_]
UsernameSyntax(t) == Len(t) \in 1..50 /\ \A i \in 1..Len(t) : t[i] \in WordChars

\* ^\d+$
DigitsOnly(t) == Len(t) > 0 /\ \A i \in 1..Len(t) : t[i] \in Digits

\* C1: classification is total: parseUserInput returns Id, Username or
\* Invalid and parsePostInput returns Id or Invalid for every input, and
\* neither call throws.
C1_Total ==
  /\ userRes.kind \in {"none", "id", "username", "invalid"}
  /\ postRes.kind \in {"none", "id", "invalid"}

\* C2: for https://<host>/<user>/status/<digits> on an accepted host with
\* <user> in username syntax, parsePostInput yields Id <digits> and
\* parseUserInput yields Username <user>, letter case kept.
C2_StatusUrl ==
  (/\ OnAcceptedHost
   /\ inp.scheme = <<"h","t","t","p","s",":","/","/">>
   /\ Len(inp.segs) = 3
   /\ UsernameSyntax(inp.segs[1])
   /\ inp.segs[2] = <<"s","t","a","t","u","s">>
   /\ DigitsOnly(inp.segs[3])
   /\ inp.tail = <<>>)
  => /\ postRes.kind # "none" => postRes.kind = "id" /\ postRes.value = inp.segs[3]
     /\ userRes.kind # "none" => userRes.kind = "username" /\ userRes.value = inp.segs[1]

C2_Witness ==
  /\ source = <<"h","t","t","p","s",":","/","/","W","W","W",".","T","w","i","t","t","e","r",".","C","o","m","/","A","l","_","1","/","s","t","a","t","u","s","/","1","2","3">>
  /\ postRes.kind = "id" /\ postRes.value = <<"1","2","3">>
  /\ userRes.kind = "username" /\ userRes.value = <<"A","l","_","1">>

\* C3: for an input without the http:// or https:// prefix: all digits gives
\* Id with the input as value from both resolvers; otherwise parsePostInput
\* gives Invalid, and parseUserInput gives Username t, t the input less one
\* leading @, when t has username syntax, and Invalid when it has not.
C3_PlainText ==
  (~startsWith(source, <<"h","t","t","p",":","/","/">>) /\ ~startsWith(source, <<"h","t","t","p","s",":","/","/">>))
  => LET t == IF Len(source) > 0 /\ source[1] = "@" THEN Tail(source) ELSE source
     IN  IF DigitsOnly(source)
         THEN /\ userRes.kind # "none" => userRes.kind = "id" /\ userRes.value = source
              /\ postRes.kind # "none" => postRes.kind = "id" /\ postRes.value = source
         ELSE /\ postRes.kind # "none" => postRes.kind = "invalid"
              /\ userRes.kind # "none" =>
                   IF UsernameSyntax(t)
                   THEN userRes.kind = "username" /\ userRes.value = t
                   ELSE userRes.kind = "invalid"

C3_Witness ==
  /\ source = <<"@">> \o Rep("a", 50)
  /\ userRes.kind = "username" /\ userRes.value = Rep("a", 50)
  /\ postRes.kind = "invalid"

\* The path of the input under test holds /status/<digits>.
PathHasStatusDigits ==
  \E k \in 1..(Len(inp.segs) - 1) :
    /\ inp.segs[k] = <<"s","t","a","t","u","s">>
    /\ Len(inp.segs[k + 1]) > 0
    /\ inp.segs[k + 1][1] \in Digits

\* C4: for a URL on an accepted host parsePostInput yields Id exactly when
\* the path holds /status/<digits>; when only the query string or the
\* fragment does, the result is Invalid, "Could not determine a Post ID
\* from URL."
C4_PathDecides ==
  (OnAcceptedHost /\ postRes.kind # "none")
  => IF PathHasStatusDigits
     THEN postRes.kind = "id"
     ELSE /\ postRes.kind = "invalid"
          /\ postRes.reason = "Could not determine a Post ID from URL."

\* The hostname as the claim normalises it: lower-cased, a leading www. removed.
HostOf(url) ==
  LET h == toLowerCase(url.hostname)
  IN  IF startsWith(h, <<"w","w","w",".">>) THEN Drop(h, 4) ELSE h

\* C5: an input with the http:// or https:// prefix that parses as a URL
\* whose host, lower-cased and less a leading www., is neither x.com nor
\* twitter.com gives Invalid "URL must be on x.com or twitter.com." from
\* both resolvers; one that does not parse gives Invalid "Invalid URL."
C5_OtherHost ==
  UrlInput
  => \E url \in {newURL(source)} :
       \E reason \in {IF ~url.ok THEN "Invalid URL."
                      ELSE "URL must be on x.com or twitter.com."} :
         (~url.ok \/ HostOf(url) \notin {<<"x",".","c","o","m">>, <<"t","w","i","t","t","e","r",".","c","o","m">>})
         => /\ userRes.kind # "none" => userRes.kind = "invalid" /\ userRes.reason = reason
            /\ postRes.kind # "none" => postRes.kind = "invalid" /\ postRes.reason = reason

C5_Witness ==
  /\ source = <<"h","t","t","p","s",":","/","/","m","o","b","i","l","e",".","x",".","c","o","m","/","b","o","b","/","s","t","a","t","u","s","/","1","2","3">>
  /\ userRes.kind = "invalid" /\ userRes.reason = "URL must be on x.com or twitter.com."
  /\ postRes.kind = "invalid" /\ postRes.reason = "URL must be on x.com or twitter.com."

(***************************************************************************)
(* Properties of the command layer, checked under SpecCli.                 *)
(***************************************************************************)

\* main went into the inferred mode of `cmd` with the arguments after it.
Inferred(cmd, subcommands) ==
  /\ pc # "idle"
  /\ ~g.help /\ ~g.helpAll
  /\ Len(positionals) >= 2
  /\ positionals[1] = cmd
  /\ positionals[2] \notin subcommands

\* main went into posts by-ids.
PostsByIds ==
  /\ pc # "idle"
  /\ ~g.help /\ ~g.helpAll
  /\ Len(positionals) >= 2
  /\ positionals[1] = <<"p","o","s","t","s">>
  /\ positionals[2] = <<"b","y","-","i","d","s">>

\* The arguments after the command name, each classified as a user reference.
UserArgs == [i \in 1..(Len(positionals) - 1) |-> parseUserInput(positionals[i + 1])]

\* The arguments after the first `skip` positionals, each classified as a
\* post reference.
PostArgs(skip) ==
  [i \in 1..(Len(positionals) - skip) |-> parsePostInput(positionals[i + skip])]

\* Some argument is Invalid, and then: one error line for each Invalid
\* argument in argument order, exit code 1, no client, no request.
InvalidReported(parsed) ==
  LET bad == SelectSeq(parsed, LAMBDA x : x.kind = "invalid")
  IN  Len(bad) > 0
      => /\ pc = "done"
         /\ exitCode = 1
         /\ stderr = [i \in 1..Len(bad) |-> ErrLine("invalid", bad[i].source, bad[i].reason, 0)]
         /\ clients = 0
         /\ requests = <<>>

\* C6: in inferred users or posts lookup and in posts by-ids, when an
\* argument classifies as Invalid every invalid argument is reported in
\* argument order, the exit code is 1, and no client is constructed and no
\* request issued.
C6_InvalidReported ==
  /\ Inferred(<<"u","s","e","r","s">>, USER_SUBCOMMANDS) => InvalidReported(UserArgs)
  /\ Inferred(<<"p","o","s","t","s">>, POST_SUBCOMMANDS) => InvalidReported(PostArgs(1))
  /\ PostsByIds => InvalidReported(PostArgs(2))

\* The distinct values of the arguments classified as `kind`.
Distinct(parsed, kind) ==
  {parsed[i].value : i \in {j \in 1..Len(parsed) : parsed[j].kind = kind}}

AllValid(parsed) == \A i \in 1..Len(parsed) : parsed[i].kind \in {"id", "username"}

\* The size limit was reported for the group `label` with `n` values:
\* exit code 1 and no request.
SizeError(label, n) ==
  /\ pc = "done"
  /\ exitCode = 1
  /\ stderr = <<ErrLine("config", <<>>, label, n)>>
  /\ requests = <<>>

\* C7: in inferred user lookup with valid arguments, more than 100 distinct
\* IDs or usernames fail with a validation error naming the group and the
\* distinct count, exit code 1 and no request; 100 or fewer distinct values
\* in each group pass the size check.
C7_SizeLimit ==
  (Inferred(<<"u","s","e","r","s">>, USER_SUBCOMMANDS) /\ AllValid(UserArgs))
  => LET nIds == Cardinality(Distinct(UserArgs, "id"))
         nNames == Cardinality(Distinct(UserArgs, "username"))
     IN  /\ nIds > 100 => SizeError("users IDs", nIds)
         /\ (nIds <= 100 /\ nNames > 100) => SizeError("users usernames", nNames)
         /\ (nIds <= 100 /\ nNames <= 100)
            => \A k \in 1..Len(stderr) :
                 stderr[k].text \notin {"users IDs", "users usernames"}

C7_Witness ==
  /\ Inferred(<<"u","s","e","r","s">>, USER_SUBCOMMANDS)
  /\ Len(positionals) = 102
  /\ exitCode = 1
  /\ stderr = <<ErrLine("config", <<>>, "users usernames", 101)>>
  /\ requests = <<>>

\* The index of the first occurrence of x in the values V.
First(V, x) ==
  LET at == {k \in 1..Len(V) : V[k] = x}
  IN  CHOOSE k \in at : \A j \in at : k <= j

\* The list L holds each value of V once, in the order of first occurrence.
FirstOccurrences(L, V) ==
  /\ \A i, j \in 1..Len(L) : i # j => L[i] # L[j]
  /\ {L[i] : i \in 1..Len(L)} = {V[i] : i \in 1..Len(V)}
  /\ \A i \in 1..(Len(L) - 1) : First(V, L[i]) < First(V, L[i + 1])

\* The values of the arguments classified as `kind`, in argument order.
ValuesOf(parsed, kind) ==
  LET at == SelectSeq([i \in 1..Len(parsed) |-> i], LAMBDA i : parsed[i].kind = kind)
  IN  [k \in 1..Len(at) |-> parsed[at[k]].value]

\* C8: in inferred user lookup with no invalid argument, the list passed to
\* getByIds holds each distinct Id value once and the list passed to
\* getByUsernames each distinct Username value once, both in the order of
\* first occurrence, and nothing else is requested.
C8_Partition ==
  (Inferred(<<"u","s","e","r","s">>, USER_SUBCOMMANDS) /\ AllValid(UserArgs))
  => /\ \A k \in 1..Len(requests) :
          \/ /\ requests[k].method = "users.getByIds"
             /\ FirstOccurrences(requests[k].list, ValuesOf(UserArgs, "id"))
          \/ /\ requests[k].method = "users.getByUsernames"
             /\ FirstOccurrences(requests[k].list, ValuesOf(UserArgs, "username"))
     /\ (pc = "done" /\ exitCode = 0)
        => /\ Distinct(UserArgs, "id") # {}
              => \E k \in 1..Len(requests) : requests[k].method = "users.getByIds"
           /\ Distinct(UserArgs, "username") # {}
              => \E k \in 1..Len(requests) : requests[k].method = "users.getByUsernames"

C8_Witness ==
  /\ Inferred(<<"u","s","e","r","s">>, USER_SUBCOMMANDS)
  /\ Len(positionals) = 1 + 2 * 100 + 2
  /\ pc = "done"
  /\ exitCode = 0
  /\ Len(requests) = 2
  /\ requests[1].method = "users.getByIds" /\ Len(requests[1].list) = 100
  /\ requests[2].method = "users.getByUsernames" /\ Len(requests[2].list) = 100

\* C9: main resolves to 0, 1 or 2: 1 for a validation failure, which is
\* reported before any request; 2 for an error raised while a request is in
\* progress; 0 for help and for requests that succeeded.
C9_ExitCodes ==
  pc = "done"
  => /\ exitCode \in {0, 1, 2}
     /\ exitCode = 0 => stderr = <<>> /\ stdout # <<>>
     /\ exitCode = 1 => stderr # <<>> /\ requests = <<>>
     /\ exitCode = 2 => requests # <<>>

(***************************************************************************)
(* Properties of the WOEID index loader, checked under SpecWoeid.          *)
(***************************************************************************)

\* The call that is running or that ended last began with a cache file
\* less than 7 days old whose content decodes to a non-empty index.
FreshCacheAtCall ==
  /\ call.n > 0
  /\ call.file.exists
  /\ call.clock - call.file.mtimeMs < 7 * 24 * 60 * 60 * 1000
  /\ ~parseWoeidRows(call.file.text).threw

\* C10: a call of loadWoeidIndex that begins with a cache file less than 7
\* days old whose content decodes to a non-empty index fetches nothing,
\* returns the decoded content and does not rewrite the file.
C10_FreshCacheNoFetch ==
  FreshCacheAtCall
  => /\ fetches = 0
     /\ writes = 0
     /\ cacheFile = call.file
     /\ wpc \in {"fresh", "idle"}
     /\ wpc = "idle" => wres = Returned("cache", parseWoeidRows(call.file.text).rows)

C10_Witness ==
  /\ FreshCacheAtCall
  /\ call.clock - call.file.mtimeMs = 7 * 24 * 60 * 60 * 1000 - 1
  /\ wpc = "idle"
  /\ wres.status = "ok"
  /\ wres.from = "cache"
  /\ fetches = 0

(***************************************************************************)
(* The cache file as loadWoeidIndex leaves it and finds it.                *)
(***************************************************************************)

\* The record an item of a written cache file was serialized from.
WrittenRecord(item) ==
  WoeidRecord(item.placeName.s, item.country.s, item.placeType.s, item.woeid.n,
              IF item.countryCode.t = "str" THEN item.countryCode.s ELSE UndefinedStr)

WrittenRows(text) == [i \in 1..Len(text.items) |-> WrittenRecord(text.items[i])]

\* The call began with a file that writeCache wrote less than 7 days earlier.
WrittenCacheAtCall ==
  /\ call.n > 0
  /\ call.file.exists
  /\ call.file.text.kind = "json"
  /\ call.file.text.array
  /\ Len(call.file.text.items) > 0
  /\ call.file.text = stringify(WrittenRows(call.file.text))
  /\ call.clock - call.file.mtimeMs < 7 * 24 * 60 * 60 * 1000

\* C11: a call of loadWoeidIndex that finds the file an earlier call wrote
\* with writeCache less than 7 days before reads the written records back
\* and fetches nothing.
C11_WriteThenRead ==
  WrittenCacheAtCall
  => /\ fetches = 0
     /\ wpc = "idle" => wres = Returned("cache", WrittenRows(call.file.text))

\* The fetch of the call in progress, or of the last call, succeeded.
FetchSucceeded == call.n > 0 /\ Len(remote) > 0

\* C12: when the fetch of a call succeeded the call returns the fetched
\* index, never the stale cache and never the "no cache found" error, also
\* when writeCache fails; a cache file it wrote holds the fetched index.
C12_FetchedIndexReturned ==
  (FetchSucceeded /\ wpc = "idle")
  => /\ wres = Returned("network", remote)
     /\ writes > 0 => cacheFile.text = stringify(remote)

\* The fetch of the call was made and failed.
FetchFailed == call.n > 0 /\ fetches > 0 /\ Len(remote) = 0 /\ wpc \in {"stale", "idle"}

\* C13: the network is contacted only after the fresh-cache read returned
\* nothing and at most once per call; after a failed fetch the call returns
\* the content of the cache file whatever its age when that decodes; the
\* call throws only when the fetch failed and no cache file decodes.
C13_FallbackOrder ==
  /\ fetches <= 1
  /\ fetches > 0 => ~tryReadCache(FALSE, call.file, call.clock).some
  /\ (FetchFailed /\ wpc = "idle")
       => wres = IF call.file.exists /\ ~parseWoeidRows(call.file.text).threw
                 THEN Returned("stale", parseWoeidRows(call.file.text).rows)
                 ELSE Thrown
  /\ (wpc = "idle" /\ wres = Thrown)
       => /\ FetchFailed
          /\ ~(cacheFile.exists /\ ~parseWoeidRows(cacheFile.text).threw)

\* C14: an index that loadWoeidIndex returns is not empty, and each of its
\* records has a non-empty place name and a woeid that is a positive integer.
C14_ValidRecords ==
  (wpc = "idle" /\ wres.status = "ok")
  => /\ Len(wres.rows) > 0
     /\ \A i \in 1..Len(wres.rows) :
          /\ Len(wres.rows[i].placeName) > 0
          /\ wres.rows[i].woeid > 0

(***************************************************************************)
(* internal/woeid.ts: searchWoeid and its scoring.                         *)
(*                                                                         *)
(* A character outside ASCII is written as its code point, "U+00E3".       *)
(***************************************************************************)

\* Combining diacritical marks U+0300..U+036F (those that occur here).
CombiningMarks == {"U+0301", "U+0303"}

\* The NFKD decomposition of one character.
Decompose(c) ==
  CASE c = "U+00E3" -> <<"a", "U+0303">>
    [] c = "U+00C3" -> <<"A", "U+0303">>
    [] c = "U+00E9" -> <<"e", "U+0301">>
    [] c = "U+FB01" -> <<"f", "i">>
    [] OTHER -> <<c>>

RECURSIVE normalizeNFKD(_)
\* String.prototype.normalize("NFKD")
normalizeNFKD(s) ==
  IF Len(s) = 0 THEN <<>> ELSE Decompose(s[1]) \o normalizeNFKD(Tail(s))

\* [a-z0-9]
AlphaNum == LowerChars \cup Digits

\* .replace(/[^a-z0-9]+/g, " "): each maximal run of other characters
\* becomes one space.
collapseOthers(s) ==
  LET spaced == [i \in 1..Len(s) |-> IF s[i] \in AlphaNum THEN s[i] ELSE " "]
      keep == {i \in 1..Len(s) : spaced[i] # " " \/ i = 1 \/ spaced[i - 1] # " "}
  IN  [k \in 1..Cardinality(keep) |->
         spaced[CHOOSE i \in keep : Cardinality({j \in keep : j <= i}) = k]]

normalizeText(input) ==
  trim(collapseOthers(toLowerCase(
    SelectSeq(normalizeNFKD(input), LAMBDA c : c \notin CombiningMarks))))

\* String.prototype.includes
includes(s, p) == \E i \in 0..(Len(s) - Len(p)) : SubSeq(s, i + 1, i + Len(p)) = p

\* scoreRecord that gives nothing for an exact match or a prefix match.
scoreRecord_SubstringOnly(record, queryNorm, queryTokens) ==
  With(normalizeText(record.placeName), LAMBDA placeNorm :
  With(normalizeText(record.country), LAMBDA countryNorm :
  With(trim(placeNorm \o <<" ">> \o countryNorm), LAMBDA combined :
      (IF includes(placeNorm, queryNorm) THEN 80 ELSE 0)
    + (IF includes(combined, queryNorm) THEN 60 ELSE 0)
    + 24 * Cardinality({i \in 1..Len(queryTokens) : includes(placeNorm, queryTokens[i])})
    + 12 * Cardinality({i \in 1..Len(queryTokens) :
                          /\ ~includes(placeNorm, queryTokens[i])
                          /\ includes(countryNorm, queryTokens[i])}))))

scoreRecord(record, queryNorm, queryTokens) ==
  With(normalizeText(record.placeName), LAMBDA placeNorm :
  With(normalizeText(record.country), LAMBDA countryNorm :
  With(trim(placeNorm \o <<" ">> \o countryNorm), LAMBDA combined :
      (IF placeNorm = queryNorm THEN 200 ELSE 0)
    + (IF combined = queryNorm THEN 240 ELSE 0)
    + (IF startsWith(placeNorm, queryNorm) THEN 120 ELSE 0)
    + (IF startsWith(combined, queryNorm) THEN 100 ELSE 0)
    + (IF includes(placeNorm, queryNorm) THEN 80 ELSE 0)
    + (IF includes(combined, queryNorm) THEN 60 ELSE 0)
    + 24 * Cardinality({i \in 1..Len(queryTokens) : includes(placeNorm, queryTokens[i])})
    + 12 * Cardinality({i \in 1..Len(queryTokens) :
                          /\ ~includes(placeNorm, queryTokens[i])
                          /\ includes(countryNorm, queryTokens[i])}))))

\* Collation of String.prototype.localeCompare, by levels: the primary
\* weight of a character (white space, punctuation, digits, letters without
\* case and accent), then accents, then case (lower before upper).
PrimaryWeight(c) ==
  IF c \in WhiteSpace THEN 1
  ELSE IF c \in Digits THEN 200 + CodeOf(c)
  ELSE IF c \in LowerChars \cup UpperChars THEN 300 + CodeOf(toLowerChar(c))
  ELSE IF c \in {Ascii[i] : i \in 1..Len(Ascii)} THEN 2 + CodeOf(c)
  ELSE 500

PrimaryKey(s) ==
  With(SelectSeq(normalizeNFKD(s), LAMBDA c : c \notin CombiningMarks), LAMBDA base :
    [i \in 1..Len(base) |-> PrimaryWeight(base[i])])

\* One entry per base character: 1 when a combining mark follows it.
SecondaryKey(s) ==
  With(normalizeNFKD(s), LAMBDA d :
    With(SelectSeq([i \in 1..Len(d) |-> [c |-> d[i], marked |-> i < Len(d) /\ d[i + 1] \in CombiningMarks]],
                   LAMBDA x : x.c \notin CombiningMarks), LAMBDA base :
      [i \in 1..Len(base) |-> IF base[i].marked THEN 1 ELSE 0]))

TertiaryKey(s) ==
  With(SelectSeq(normalizeNFKD(s), LAMBDA c : c \notin CombiningMarks), LAMBDA base :
    [i \in 1..Len(base) |-> IF base[i] \in UpperChars THEN 1 ELSE 0])

\* -1, 0 or 1 as key a sorts before, with or after key b.
compareKeys(a, b) ==
  LET diff == {i \in 1..Len(a) : i > Len(b) \/ a[i] # b[i]}
  IN  IF diff = {}
      THEN (IF Len(a) = Len(b) THEN 0 ELSE -1)
      ELSE With(CHOOSE i \in diff : \A j \in diff : i <= j, LAMBDA i :
             IF i > Len(b) THEN 1 ELSE IF a[i] < b[i] THEN -1 ELSE 1)

localeCompare(a, b) ==
  With(compareKeys(PrimaryKey(a), PrimaryKey(b)), LAMBDA p :
    IF p # 0 THEN p
    ELSE With(compareKeys(SecondaryKey(a), SecondaryKey(b)), LAMBDA s :
           IF s # 0 THEN s ELSE compareKeys(TertiaryKey(a), TertiaryKey(b))))

\* (a, b) => b.score - a.score || a.placeName.localeCompare(b.placeName)
compareScored(a, b) ==
  IF b.score # a.score THEN b.score - a.score
  ELSE localeCompare(a.placeName, b.placeName)

\* Array.prototype.sort with compareScored; the sort is stable.
sortScored(xs) ==
  LET before(j, i) == With(compareScored(xs[j], xs[i]), LAMBDA c : c < 0 \/ (c = 0 /\ j < i))
      rank(i) == Cardinality({j \in 1..Len(xs) : before(j, i)})
  IN  [k \in 1..Len(xs) |-> xs[CHOOSE i \in 1..Len(xs) : rank(i) = k - 1]]

\* Math.max(1, Math.min(opts?.limit ?? 10, 100)) for an integer limit.
limitOf(l) ==
  With(IF l.given THEN l.n ELSE 10, LAMBDA given :
    With(IF given < 100 THEN given ELSE 100, LAMBDA capped :
      IF capped > 1 THEN capped ELSE 1))

Scored(record, score) ==
  [placeName |-> record.placeName, country |-> record.country,
   placeType |-> record.placeType, woeid |-> record.woeid,
   countryCode |-> record.countryCode, score |-> score]

\* searchWoeid from the point where loadWoeidIndex returned index.
rankIndex(index, q, l) ==
  With(normalizeText(q), LAMBDA queryNorm :
  With(SelectSeq(split(queryNorm, {" "}), LAMBDA x : Len(x) > 0), LAMBDA queryTokens :
  With([i \in 1..Len(index) |-> Scored(index[i], scoreRecord(index[i], queryNorm, queryTokens))],
       LAMBDA all :
  With(sortScored(SelectSeq(all, LAMBDA x : x.score > 0)), LAMBDA scored :
    IF Len(scored) <= limitOf(l) THEN scored ELSE Take(scored, limitOf(l))))))

(***************************************************************************)
(* Calls of searchWoeid.                                                   *)
(***************************************************************************)

SaoPaulo == <<"S", "U+00E3", "o", " ", "P", "a", "u", "l", "o">>

\* Rows of the index files searches run against.
SearchItems ==
  {Row(Str(SaoPaulo), Str(<<"B","r","a","z","i","l">>), Str(<<"T","o","w","n">>), Num(455827, TRUE), Str(<<"B","R">>)),
   Row(Str(<<"S","a","o"," ","P","a","u","l","o">>), Str(<<"B","r","a","z","i","l">>), Str(<<"S","t","a","t","e">>), Num(2344868, TRUE), Absent),
   Row(Str(<<"X","-","S","a","o"," ","P","a","u","l","o">>), Str(<<>>), Str(<<"T","o","w","n">>), Num(12, TRUE), Absent),
   Row(Str(<<"P","a","u","l","o">>), Str(<<"S","a","o"," ","T","o","m","e">>), Str(<<"T","o","w","n">>), Num(13, TRUE), Absent),
   Row(Str(<<"L","i","m","a">>), Str(<<"P","e","r","u">>), Str(<<"T","o","w","n">>), Num(418440, TRUE), Str(<<"P","E">>))}

SearchFiles ==
  {NoFile, [exists |-> TRUE, mtimeMs |-> StartMs, text |-> GarbageText]}
  \cup {[exists |-> TRUE, mtimeMs |-> StartMs, text |-> ArrayText(items)] :
          items \in SeqsUpTo(SearchItems, MaxRows) \ {<<>>}}
  \cup {[exists |-> TRUE, mtimeMs |-> StartMs - (CACHE_MAX_AGE_MS + 1),
         text |-> ArrayText(<<item>>)] : item \in SearchItems}

Queries ==
  {<<"s","a","o"," ","p","a","u","l","o">>, <<"S", "U+00C3", "O">> \o <<" "," ","P","A","U","L","O","!">>, <<"p","a","u","l","o">>, <<"p","e","r","u">>, <<"T","o","k","y","o">>, <<>>, <<" ","-","!">>}

\* opts.limit: not given, or an integer.
NoLimit == [given |-> FALSE, n |-> 0]

Limit(n) == [given |-> TRUE, n |-> n]

Limits == {NoLimit} \cup {Limit(n) : n \in {-1, 0, 1, 2, 101}}

\* searchWoeid(q, {limit: l}) up to its await: an empty normalized query
\* returns [] at once, any other calls loadWoeidIndex.
SearchWoeid(q, l) ==
  /\ spc = "idle"
  /\ wpc = "idle"
  /\ query' = q
  /\ limitOpt' = l
  /\ IF Len(normalizeText(q)) = 0
     THEN /\ spc' = "done"
          /\ sres' = [status |-> "ok", rows |-> <<>>]
          /\ UNCHANGED woeidVars
     ELSE /\ spc' = "load"
          /\ sres' = sres
          /\ wpc' = "fresh"
          /\ call' = [n |-> call.n + 1, file |-> cacheFile, clock |-> now]
          /\ remote' = <<>>
          /\ fetches' = 0
          /\ writes' = 0
          /\ wres' = NoIndex
          /\ UNCHANGED <<now, cacheFile>>
  /\ UNCHANGED <<parseVars, cliVars, tableVars, textVars, mediaVars>>

\* loadWoeidIndex settled: searchWoeid rejects with its error or ranks the index.
SearchResumes ==
  /\ spc = "load"
  /\ wpc = "idle"
  /\ spc' = "done"
  /\ sres' = IF wres.status = "error" THEN [status |-> "error", rows |-> <<>>]
             ELSE [status |-> "ok", rows |-> rankIndex(wres.rows, query, limitOpt)]
  /\ UNCHANGED <<query, limitOpt>>
  /\ UNCHANGED <<parseVars, cliVars, woeidVars, tableVars, textVars, mediaVars>>

NextSearch ==
  \/ \E q \in Queries, l \in Limits : SearchWoeid(q, l)
  \/ FreshCacheRead
  \/ \E response \in Responses : FetchSettles(response)
  \/ \E ok \in BOOLEAN : WriteCacheSettles(ok)
  \/ StaleCacheRead
  \/ SearchResumes

\* A process that is about to call searchWoeid, with an index file, an
\* unreadable file or no file at the cache path.
InitSearch ==
  /\ ParseIdle
  /\ CliIdle
  /\ now = StartMs
  /\ cacheFile \in SearchFiles
  /\ wpc = "idle"
  /\ call = [n |-> 0, file |-> NoFile, clock |-> 0]
  /\ remote = <<>>
  /\ fetches = 0
  /\ writes = 0
  /\ wres = NoIndex
  /\ ViewIdle

SpecSearch == InitSearch /\ [][NextSearch]_vars

(***************************************************************************)
(* Claims about searchWoeid.                                               *)
(***************************************************************************)

SearchReturned == spc = "done" /\ sres.status = "ok"

\* The tokens of the normalized query.
TokensOf(q) == SelectSeq(split(normalizeText(q), {" "}), LAMBDA x : Len(x) > 0)

ScoreOf(record) == scoreRecord(record, normalizeText(query), TokensOf(query))

\* The matches are in rank order: score descending, equal scores by name.
InRankOrder(rows) ==
  \A i, j \in 1..Len(rows) :
    i < j => \/ rows[i].score > rows[j].score
             \/ /\ rows[i].score = rows[j].score
                /\ localeCompare(rows[i].placeName, rows[j].placeName) <= 0

\* No record of the index that ranks above a returned one was left out.
NoneOmitted(index, rows) ==
  \A k \in 1..Len(index), j \in 1..Len(rows) :
    (/\ ScoreOf(index[k]) > 0
     /\ compareScored(Scored(index[k], ScoreOf(index[k])), rows[j]) < 0)
    => \E i \in 1..Len(rows) : rows[i] = Scored(index[k], ScoreOf(index[k]))

SearchContract(sizeLimit) ==
  /\ Len(sres.rows) <= sizeLimit
  /\ \A i \in 1..Len(sres.rows) : sres.rows[i].score > 0
  /\ InRankOrder(sres.rows)
  /\ Len(normalizeText(query)) > 0 => NoneOmitted(wres.rows, sres.rows)
  /\ Len(normalizeText(query)) = 0 => (Len(sres.rows) = 0 /\ call.n = 0)

\* The most matches the caller asked for: opts.limit, 10 when none is passed,
\* none for a negative limit.
AskedLimit ==
  IF ~limitOpt.given THEN 10 ELSE IF limitOpt.n < 0 THEN 0 ELSE limitOpt.n

\* C15: searchWoeid returns at most limit matches (at most 10 when no limit
\* is passed), all with a positive score, in rank order, leaving out no
\* record that ranks above a returned one; a query that normalizes to the
\* empty string returns no match and does not load the index.
C15_SearchContract == SearchReturned => SearchContract(AskedLimit)

\* The records of the rows searches run against.
SearchRecords == {rowRecord(item).rec : item \in SearchItems}

\* The records whose normalized place name equals the normalized query.
ExactMatches(queryNorm) ==
  {r \in SearchRecords : normalizeText(r.placeName) = queryNorm}

\* The records whose normalized place name contains the normalized query
\* somewhere after its start.
SubstringOnly(queryNorm) ==
  {r \in SearchRecords :
     With(normalizeText(r.placeName), LAMBDA placeNorm :
       includes(placeNorm, queryNorm) /\ ~startsWith(placeNorm, queryNorm))}

PositionsOf(record, score) == {i \in 1..Len(sres.rows) : sres.rows[i] = Scored(record, score)}

ExactAbove(a, b, scoreA, scoreB) ==
  /\ scoreA >= 200
  /\ scoreA > scoreB
  /\ (sres.status = "ok" /\ \E k \in 1..Len(wres.rows) : wres.rows[k] = a)
       => \A j \in PositionsOf(b, scoreB) : \E i \in PositionsOf(a, scoreA) : i < j

\* C16: for the query of a search, a record whose normalized place name
\* equals the normalized query scores at least 200 and strictly more than a
\* record whose normalized place name only contains the query; when both are
\* in the index searched the exact match comes first in the result.
C16_ExactAboveSubstring ==
  spc = "done"
  => With(normalizeText(query), LAMBDA queryNorm :
       With(SelectSeq(split(queryNorm, {" "}), LAMBDA x : Len(x) > 0), LAMBDA queryTokens :
         \A a \in ExactMatches(queryNorm), b \in SubstringOnly(queryNorm) :
           ExactAbove(a, b, scoreRecord(a, queryNorm, queryTokens),
                      scoreRecord(b, queryNorm, queryTokens))))

\* The query "SÃO  PAULO!" found "São Paulo" ahead of "X-Sao Paulo".
C16_Witness ==
  /\ SearchReturned
  /\ query = <<"S", "U+00C3", "O">> \o <<" "," ","P","A","U","L","O","!">>
  /\ Len(sres.rows) = 2
  /\ sres.rows[1].placeName = SaoPaulo
  /\ sres.rows[1].score >= 200
  /\ sres.rows[2].placeName = <<"X","-","S","a","o"," ","P","a","u","l","o">>
  /\ wres.rows[1].placeName = <<"X","-","S","a","o"," ","P","a","u","l","o">>

(***************************************************************************)
(* internal/util.ts: the column widths of renderTable.                     *)
(***************************************************************************)

MaxCols == 2

\* The escape character U+001B.
Esc == "U+001B"

RECURSIVE stripAnsi(_)
\* input.replace(/\u001B\[[0-9;]*m/g, ""): at each escape character the
\* sequence [, digits and semicolons, m is removed when it is all there.
stripAnsi(s) ==
  With(IndexOfAny(s, {Esc}), LAMBDA e :
    IF e > Len(s) THEN s
    ELSE With(Drop(s, e), LAMBDA rest :
           With(IF Len(rest) > 0 /\ rest[1] = "["
                THEN 1 + IndexOfNone(Tail(rest), Digits \cup {";"}) ELSE 0, LAMBDA k :
             IF k > 0 /\ k <= Len(rest) /\ rest[k] = "m"
             THEN Take(s, e - 1) \o stripAnsi(Drop(rest, k))
             ELSE Take(s, e) \o stripAnsi(rest))))

Max(a, b) == IF a >= b THEN a ELSE b

Min(a, b) == IF a <= b THEN a ELSE b

\* An optional number: opts.maxWidth, opts.minColWidth, opts.minWidths[i].
NotGiven == [given |-> FALSE, n |-> 0]

Given(n) == [given |-> TRUE, n |-> n]

\* row[i] ?? ""
cellOf(row, i) == IF i <= Len(row) THEN row[i] ELSE <<>>

RECURSIVE MaxCellWidth(_, _, _)
\* The widest stripped cell of column i in the first k rows, at least w.
MaxCellWidth(rows, i, w) ==
  IF Len(rows) = 0 THEN w
  ELSE MaxCellWidth(Tail(rows), i, Max(w, Len(stripAnsi(cellOf(rows[1], i)))))

\* widths: the natural width of each column.
naturalWidths(headers, rows) ==
  [i \in 1..Len(headers) |-> MaxCellWidth(rows, i, Len(stripAnsi(headers[i])))]

\* opts?.minWidths?.[i]
explicitOf(opts, i) ==
  IF opts.minWidths.given /\ i <= Len(opts.minWidths.list) THEN opts.minWidths.list[i]
  ELSE NotGiven

\* minWidths of renderTable.
minWidthsOf(headers, natural, opts) ==
  [i \in 1..Len(headers) |->
     With(explicitOf(opts, i), LAMBDA explicit :
       With(IF explicit.given THEN Max(1, explicit.n)
            ELSE IF opts.minColWidth.given THEN opts.minColWidth.n ELSE 4, LAMBDA bounded :
         Min(natural[i], Max(Len(stripAnsi(headers[i])), bounded))))]

RECURSIVE Sum(_)
Sum(ns) == IF Len(ns) = 0 THEN 0 ELSE ns[1] + Sum(Tail(ns))

\* total() of shrinkWidthsToFit
total(out) == Sum(out) + Max(0, Len(out) - 1) * 2

\* The budget renderTable hands to shrinkWidthsToFit.
budgetOf(opts) == Max(20, opts.maxWidth.n)

\* A candidate search that takes the widest column, whatever its slack.
shrinkCandidate_Widest(out, mins) ==
  With(CHOOSE i \in 1..Len(out) : \A j \in 1..Len(out) : out[j] <= out[i], LAMBDA i :
    [candidate |-> i, bestSlack |-> out[i]])

\* A candidate search that takes the first column that still has slack.
shrinkCandidate_FirstWithSlack(out, mins) ==
  With({i \in 1..Len(out) : out[i] - mins[i] > 0}, LAMBDA able :
    IF able = {} THEN [candidate |-> 0, bestSlack |-> 0]
    ELSE With(CHOOSE i \in able : \A j \in able : i <= j, LAMBDA i :
           [candidate |-> i, bestSlack |-> out[i] - mins[i]]))

\* The for loop of shrinkWidthsToFit: the last column among those with the
\* largest slack, candidate 0 (-1 in the code) when every slack is negative.
shrinkCandidate(out, mins) ==
  With({i \in 1..Len(out) : out[i] - mins[i] >= 0}, LAMBDA able :
    IF able = {} THEN [candidate |-> 0, bestSlack |-> 0]
    ELSE With(CHOOSE i \in able :
                /\ \A j \in able : out[j] - mins[j] <= out[i] - mins[i]
                /\ \A j \in able : out[j] - mins[j] = out[i] - mins[i] => j <= i, LAMBDA i :
           [candidate |-> i, bestSlack |-> out[i] - mins[i]]))

(***************************************************************************)
(* internal/util.ts: wrapping, padding and the lines of renderTable.       *)
(***************************************************************************)

\* Hard split that leaves a long word whole.
chunksOf_Whole(word, width) == <<word>>

\* for (let i = 0; i < word.length; i += width) word.slice(i, i + width)
chunksOf(word, width) ==
  [k \in 1..((Len(word) + width - 1) \div width) |->
     SubSeq(word, (k - 1) * width + 1, Min(k * width, Len(word)))]

RECURSIVE wrapWords(_, _, _)
\* The loop over the words of one segment; line is the line being filled.
wrapWords(words, line, width) ==
  IF Len(words) = 0 THEN (IF Len(line) > 0 THEN <<line>> ELSE <<>>)
  ELSE With(Head(words), LAMBDA word :
    IF Len(word) > width
    THEN (IF Len(line) > 0 THEN <<line>> ELSE <<>>)
           \o chunksOf(word, width) \o wrapWords(Tail(words), <<>>, width)
    ELSE IF Len(line) = 0 THEN wrapWords(Tail(words), word, width)
    ELSE IF Len(line) + 1 + Len(word) <= width
    THEN wrapWords(Tail(words), line \o <<" ">> \o word, width)
    ELSE <<line>> \o wrapWords(Tail(words), word, width))

\* One segment of wrapPlainText: trimmed.split(/\s+/) and the word loop.
wrapSegment(segment, width) ==
  With(trim(segment), LAMBDA trimmed :
    IF Len(trimmed) = 0 THEN <<<<>>>>
    ELSE wrapWords(SelectSeq(split(trimmed, WhiteSpace), LAMBDA w : Len(w) > 0), <<>>, width))

RECURSIVE flatten(_)
\* The lists of a list, one after the other.
flatten(lists) == IF Len(lists) = 0 THEN <<>> ELSE Head(lists) \o flatten(Tail(lists))

wrapPlainText(input, width) ==
  IF width <= 1
  THEN (IF Len(input) = 0 THEN <<<<>>>> ELSE [i \in 1..Len(input) |-> <<input[i]>>])
  ELSE With(split(input, {"\n"}), LAMBDA segments :
         With(flatten([k \in 1..Len(segments) |-> wrapSegment(segments[k], width)]),
              LAMBDA chunks : IF Len(chunks) > 0 THEN chunks ELSE <<<<>>>>))

wrapText(input, width) ==
  With(stripAnsi(input), LAMBDA plain :
    IF Len(plain) <= width THEN <<input>> ELSE wrapPlainText(plain, width))

padRight(input, width) ==
  With(Len(stripAnsi(input)), LAMBDA len :
    IF len >= width THEN input ELSE input \o Rep(" ", width - len))

\* wrappedCells.reduce((max, lines) => Math.max(max, lines.length), 1)
rowHeight(wrappedCells) ==
  With({1} \cup {Len(wrappedCells[i]) : i \in 1..Len(wrappedCells)}, LAMBDA heights :
    CHOOSE h \in heights : \A k \in heights : k <= h)

\* The body lines of one row.
rowLines(row, fittedWidths) ==
  With([i \in 1..Len(fittedWidths) |-> wrapText(cellOf(row, i), fittedWidths[i])],
       LAMBDA wrappedCells :
    [lineIdx \in 1..rowHeight(wrappedCells) |->
       join([i \in 1..Len(fittedWidths) |->
               padRight(IF lineIdx <= Len(wrappedCells[i]) THEN wrappedCells[i][lineIdx]
                        ELSE <<>>, fittedWidths[i])], <<" ", " ">>)])

\* [headerLine, separator, ...bodyLines] of renderTable.
tableLines(headers, rows, fittedWidths) ==
  <<join([i \in 1..Len(headers) |-> padRight(headers[i], fittedWidths[i])], <<" ", " ">>),
    join([i \in 1..Len(headers) |-> Rep("-", fittedWidths[i])], <<" ", " ">>)>>
  \o flatten([r \in 1..Len(rows) |-> rowLines(rows[r], fittedWidths)])

RECURSIVE shrinkWidthsToFit(_, _, _)
\* The while loop of shrinkWidthsToFit, run to its end.
shrinkWidthsToFit(out, mins, maxWidth) ==
  IF total(out) <= maxWidth THEN out
  ELSE With(shrinkCandidate(out, mins), LAMBDA c :
         IF c.candidate = 0 \/ c.bestSlack <= 0 THEN out
         ELSE shrinkWidthsToFit([out EXCEPT ![c.candidate] = @ - 1], mins, maxWidth))

\* renderTable as a function of its arguments. The widths are an array of
\* their own (headers.map), written here as a sequence.
renderTable(headers, rows, opts) ==
  IF Len(headers) = 0 THEN <<>>
  ELSE With(naturalWidths(headers, rows) \o <<>>, LAMBDA natural :
         tableLines(headers, rows,
                    IF opts.maxWidth.given
                    THEN shrinkWidthsToFit(natural, minWidthsOf(headers, natural, opts),
                                           budgetOf(opts))
                    ELSE natural))

(***************************************************************************)
(* Calls of renderTable.                                                   *)
(***************************************************************************)

Styled(code, text) == <<Esc, "[">> \o code \o <<"m">> \o text \o <<Esc, "[", "0", "m">>

\* An escape sequence inside an escape sequence: removing the inner one
\* leaves the outer one behind.
Nested == <<Esc, "[", Esc, "[", "0", "m", "0", "m">>

HeaderPool == {<<>>, <<"P","r","o","f","i","l","e"," ","i","m","a","g","e"," ","u","r","l">>, Styled(<<"1">>, <<"N","a","m","e">>)}

CellPool == {<<"a","\t","b","\n"," ","c">>, <<"h","e","l","l","o"," ","w","o","r","l","d">>, Styled(<<"1",";","3","1">>, Rep("w", 16))}

\* The rows of a call: none, one full row, or one row that lacks its last cells.
RowsFor(cols) ==
  {<<>>} \cup {<<row>> : row \in [1..cols -> CellPool]}
         \cup {<<row>> : row \in [1..(cols - 1) -> {<<"h","e","l","l","o"," ","w","o","r","l","d">>}]}

NoMinWidths == [given |-> FALSE, list |-> <<>>]

MinWidths(list) == [given |-> TRUE, list |-> list]

TableOptions ==
  [maxWidth : {NotGiven, Given(5), Given(20), Given(21)},
   minColWidth : {NotGiven, Given(2), Given(6)},
   minWidths : {NoMinWidths, MinWidths(<<Given(0)>>), MinWidths(<<NotGiven, Given(12)>>)}]


\* renderTable(headers, rows, opts) up to the loop of shrinkWidthsToFit, or
\* to its return when no maxWidth is given.
RenderTable(headers, rows, opts) ==
  /\ tpc = "idle"
  /\ table' = [headers |-> headers, rows |-> rows, opts |-> opts]
  /\ IF Len(headers) = 0
     THEN /\ tpc' = "done"
          /\ widths' = <<>>
          /\ minWidths' = <<>>
          /\ lines' = <<>>
     ELSE \E natural \in {naturalWidths(headers, rows)} :
            /\ widths' = natural
            /\ minWidths' = minWidthsOf(headers, natural, opts)
            /\ tpc' = IF opts.maxWidth.given THEN "shrink" ELSE "done"
            /\ lines' = IF opts.maxWidth.given THEN <<>>
                        ELSE tableLines(headers, rows, natural)
  /\ UNCHANGED <<parseVars, cliVars, woeidVars, searchVars, textVars, mediaVars>>

\* One test of the while condition of shrinkWidthsToFit and, when it holds,
\* one pass of the loop body; when the loop ends renderTable goes on to its
\* return.
ShrinkStep ==
  /\ tpc = "shrink"
  /\ \E c \in {shrinkCandidate(widths, minWidths)} :
       IF total(widths) > budgetOf(table.opts) /\ c.candidate # 0 /\ c.bestSlack > 0
       THEN /\ tpc' = tpc
            /\ widths' = [widths EXCEPT ![c.candidate] = @ - 1]
            /\ lines' = lines
       ELSE /\ tpc' = "done"
            /\ widths' = widths
            /\ lines' = tableLines(table.headers, table.rows, widths)
  /\ UNCHANGED <<table, minWidths>>
  /\ UNCHANGED <<parseVars, cliVars, woeidVars, searchVars, textVars, mediaVars>>

\* The calls of renderTable that are tried.
TableCalls ==
  {[headers |-> headers, rows |-> rows, opts |-> opts] :
     headers \in [1..MaxCols -> HeaderPool], rows \in RowsFor(MaxCols), opts \in TableOptions}
  \cup {[headers |-> headers, rows |-> rows, opts |-> opts] :
     headers \in SeqsUpTo(HeaderPool \cup {Nested}, 1), rows \in RowsFor(1),
     opts \in TableOptions}

NextTable ==
  \/ /\ tpc = "idle"
     /\ \E c \in TableCalls : RenderTable(c.headers, c.rows, c.opts)
  \/ ShrinkStep

InitTable == ParseIdle /\ CliIdle /\ WoeidIdle /\ ViewIdle

SpecTable == InitTable /\ [][NextTable]_vars

(***************************************************************************)
(* Claims about the column widths of renderTable.                          *)
(***************************************************************************)

\* renderTable has computed column widths for a table with columns.
TableLaidOut == tpc \in {"shrink", "done"} /\ Len(table.headers) > 0

HeaderLength(i) == Len(stripAnsi(table.headers[i]))

\* The width of the widest stripped cell of column i, header included.
NaturalWidth(i) ==
  With({HeaderLength(i)} \cup {Len(stripAnsi(cellOf(table.rows[r], i))) : r \in 1..Len(table.rows)},
       LAMBDA lengths : CHOOSE w \in lengths : \A v \in lengths : v <= w)

\* The floor of column i: its hint, else opts.minColWidth, else 4.
FloorOf(i) ==
  IF explicitOf(table.opts, i).given THEN explicitOf(table.opts, i).n
  ELSE IF table.opts.minColWidth.given THEN table.opts.minColWidth.n
  ELSE 4

\* min(natural width, max(header length, floor))
MinimumWidth(i) == Min(NaturalWidth(i), Max(HeaderLength(i), FloorOf(i)))

\* C17: in renderTable every column width, during and after width fitting,
\* is at least the column's minimum width min(natural width, max(stripped
\* header length, hint or floor)), hence at least the header's length.
C17_MinimumKept ==
  TableLaidOut
  => \A i \in 1..Len(widths) :
       /\ widths[i] >= MinimumWidth(i)
       /\ widths[i] >= HeaderLength(i)

\* Fitting ended with one column shrunk to its minimum while another
\* column still has slack.
C17_Witness ==
  /\ tpc = "done"
  /\ table.opts.maxWidth.given
  /\ \E i, j \in 1..Len(widths) :
       /\ widths[i] = MinimumWidth(i)
       /\ widths[i] < NaturalWidth(i)
       /\ widths[j] > MinimumWidth(j)

\* Width fitting ran and has ended.
FittingEnded == tpc = "done" /\ Len(table.headers) > 0 /\ table.opts.maxWidth.given

\* Sum of the column widths plus 2 per gap between columns.
TotalWidth == total(widths)

\* C18: when options.maxWidth is given, width fitting ends either with the
\* total width at most maxWidth or with every column exactly at its minimum
\* width, for every maxWidth including those below 20.
C18_FitsOrAtMinimum ==
  FittingEnded
  => \/ TotalWidth <= table.opts.maxWidth.n
     \/ \A i \in 1..Len(widths) : widths[i] = minWidths[i]


\* The slack of column i: its width minus its minimum width.
SlackOf(w, i) == w[i] - minWidths[i]

\* A shrink step takes one unit from one column, whose slack was the
\* largest of all columns.
EvenStep ==
  (tpc = "shrink" /\ widths' # widths)
    => \E i \in 1..Len(widths) :
         /\ widths' = [widths EXCEPT ![i] = @ - 1]
         /\ \A j \in 1..Len(widths) : SlackOf(widths, j) <= SlackOf(widths, i)

\* Every column that was shrunk keeps a slack of at least the largest slack
\* of any column minus 1.
EvenlyShrunk ==
  TableLaidOut
    => \A i, j \in 1..Len(widths) :
         widths[i] < NaturalWidth(i) => SlackOf(widths, i) >= SlackOf(widths, j) - 1

\* C25: width shrinking is even: each shrink step removes one unit from a
\* column whose slack is the largest at that moment, so that a column that
\* was shrunk has a slack no smaller than the largest slack minus 1.
C25_EvenShrinking == [][EvenStep]_vars /\ []EvenlyShrunk

\* Fitting ended with two columns shrunk, by different amounts.
C25_Witness ==
  /\ tpc = "done"
  /\ \E i, j \in 1..Len(widths) :
       /\ widths[i] < NaturalWidth(i)
       /\ widths[j] < NaturalWidth(j)
       /\ NaturalWidth(i) - widths[i] > NaturalWidth(j) - widths[j] + 1

\* renderTable has returned the lines of a table with columns.
TableRendered == tpc = "done" /\ Len(table.headers) > 0

\* The rows and columns of the table whose final width is at least 1.
CellsAt == {rc \in (1..Len(table.rows)) \X (1..Len(widths)) : widths[rc[2]] >= 1}

\* The plain text of the cell in row r and column c.
PlainCell(r, c) == stripAnsi(cellOf(table.rows[r], c))

\* The lines the cell in row r and column c is wrapped into.
Wrapped(r, c) == wrapText(cellOf(table.rows[r], c), widths[c])

NoWhiteSpace(text) == SelectSeq(text, LAMBDA ch : ch \notin WhiteSpace)

\* The white-space delimited words of a text.
WordsIn(text) == {w \in {split(text, WhiteSpace)[k] : k \in 1..Len(split(text, WhiteSpace))} : Len(w) > 0}

\* The word stands in the lines from line p on, cut into pieces of exactly
\* w characters and a remainder.
CutAt(word, ls, p, w) ==
  \A k \in 1..((Len(word) + w - 1) \div w) :
    /\ p + k - 1 <= Len(ls)
    /\ ls[p + k - 1] = SubSeq(word, (k - 1) * w + 1, Min(k * w, Len(word)))

\* C26: for a final width w >= 1 every wrapped line of a cell has a plain
\* length of at most w, a word longer than w is cut into pieces of exactly w
\* characters and a remainder, the wrapped lines hold the plain text of the
\* cell but for white space, and every line renderTable returns has the
\* same stripped length: the sum of the widths plus 2 per gap.
C26_LosslessWrap ==
  TableRendered
    => /\ \A rc \in CellsAt :
            /\ \A k \in 1..Len(Wrapped(rc[1], rc[2])) :
                 Len(stripAnsi(Wrapped(rc[1], rc[2])[k])) <= widths[rc[2]]
            /\ \A word \in WordsIn(PlainCell(rc[1], rc[2])) :
                 (Len(word) > widths[rc[2]] /\ widths[rc[2]] > 1)
                   => \E p \in 1..Len(Wrapped(rc[1], rc[2])) :
                        CutAt(word, Wrapped(rc[1], rc[2]), p, widths[rc[2]])
            /\ NoWhiteSpace(stripAnsi(flatten(Wrapped(rc[1], rc[2]))))
                 = NoWhiteSpace(PlainCell(rc[1], rc[2]))
       /\ Len(lines) >= 2
       /\ \A k \in 1..Len(lines) : Len(stripAnsi(lines[k])) = TotalWidth

\* A table was rendered in which one cell is wrapped between its words and
\* another has a word cut into pieces.
C26_Witness ==
  /\ TableRendered
  /\ \E rc \in CellsAt :
       /\ Len(Wrapped(rc[1], rc[2])) = 2
       /\ Cardinality(WordsIn(PlainCell(rc[1], rc[2]))) = 2
  /\ \E rc \in CellsAt : \E word \in WordsIn(PlainCell(rc[1], rc[2])) :
       /\ Len(word) > widths[rc[2]]
       /\ Len(Wrapped(rc[1], rc[2])) >= 2
  /\ Len(lines) = 4

\* The table renderTable was called with, without its escape sequences.
StrippedHeaders == [i \in 1..Len(table.headers) |-> stripAnsi(table.headers[i])]

StrippedRows ==
  [r \in 1..Len(table.rows) |->
     [i \in 1..Len(table.rows[r]) |-> stripAnsi(table.rows[r][i])]]

\* C27: styling never affects the layout: the lines of renderTable without
\* their escape sequences are the lines renderTable returns for the same
\* headers, rows and options without their escape sequences.
C27_StylingIgnored ==
  tpc = "done"
    => [k \in 1..Len(lines) |-> stripAnsi(lines[k])]
         = renderTable(StrippedHeaders, StrippedRows, table.opts)

\* ---------------------------------------------------------------------------
\* The text of a post in human output (formatPostText): shortened links are
\* rewritten to [quote] and [imgN].
\* ---------------------------------------------------------------------------

\* The most url entities a post carries.
MaxEntities == 3

\* input.replace(/\s+/g, " "): every run of white space becomes one space.
RECURSIVE replaceRuns(_)
replaceRuns(input) ==
  IF input = <<>> THEN <<>>
  ELSE IF Head(input) \in WhiteSpace
       THEN <<" ">> \o replaceRuns(DropWhile(input, WhiteSpace))
       ELSE <<Head(input)>> \o replaceRuns(Tail(input))

compactWhitespace(input) == trim(replaceRuns(input))

\* text.split(search).join(by): the occurrences of search are found from the
\* left, each one starting after the end of the one before. search is not
\* empty.
RECURSIVE splitJoin(_, _, _)
splitJoin(text, search, by) ==
  IF Len(text) < Len(search) THEN text
  ELSE IF Take(text, Len(search)) = search
       THEN by \o splitJoin(Drop(text, Len(search)), search, by)
       ELSE <<Head(text)>> \o splitJoin(Tail(text), search, by)

\* new URL(url) inside a try block: a string without a scheme is a relative
\* reference, and without a base the constructor throws. The strings met
\* here have the scheme http or https, or none.
tryURL(url) ==
  With(toLowerCase(trim(url)), LAMBDA lower :
    IF startsWith(lower, <<"h","t","t","p",":">>) \/ startsWith(lower, <<"h","t","t","p","s",":">>)
    THEN newURL(url)
    ELSE UrlFailure)

isTcoUrl(url) ==
  With(tryURL(url), LAMBDA parsed :
    IF parsed.ok
    THEN toLowerCase(parsed.hostname) \in {<<"t",".","c","o">>, <<"w","w","w",".","t",".","c","o">>}
    ELSE \/ includes(toLowerCase(url), <<"h","t","t","p",":","/","/","t",".","c","o","/">>)
         \/ includes(toLowerCase(url), <<"h","t","t","p","s",":","/","/","t",".","c","o","/">>))

\* host.replace(/^www\./, "")
dropWww(host) == IF startsWith(host, <<"w","w","w",".">>) THEN Drop(host, 4) ELSE host

\* url is an optional string: absent and empty are both falsy.
looksLikeMediaUrl(url) ==
  /\ url.some
  /\ url.v # <<>>
  /\ With(tryURL(url.v), LAMBDA parsed :
       IF parsed.ok
       THEN \/ dropWww(toLowerCase(parsed.hostname)) \in {<<"p","i","c",".","x",".","c","o","m">>, <<"p","i","c",".","t","w","i","t","t","e","r",".","c","o","m">>}
            \/ includes(toLowerCase(parsed.pathname), <<"/","p","h","o","t","o","/">>)
            \/ includes(toLowerCase(parsed.pathname), <<"/","v","i","d","e","o","/">>)
       ELSE With(toLowerCase(url.v), LAMBDA lower :
              \/ includes(lower, <<"p","i","c",".","x",".","c","o","m","/">>)
              \/ includes(lower, <<"p","i","c",".","t","w","i","t","t","e","r",".","c","o","m","/">>)
              \/ includes(lower, <<"/","p","h","o","t","o","/">>)
              \/ includes(lower, <<"/","v","i","d","e","o","/">>)))

\* The id of the first reference of type "quoted" that has a non-empty id.
extractQuotedPostId(p) ==
  With(SelectSeq(p.referenced_tweets,
                 LAMBDA ref : ref.type = <<"q","u","o","t","e","d">> /\ ref.id # <<>>), LAMBDA quoted :
    IF quoted = <<>> THEN None ELSE Some(quoted[1].id))

\* The url entities of the post that have a non-empty url.
getPostUrlEntities(p) ==
  SelectSeq([i \in 1..Len(p.urls) |->
               [shortUrl |-> IF p.urls[i].url.some THEN p.urls[i].url.v ELSE <<>>,
                expandedUrl |-> p.urls[i].expanded_url,
                displayUrl |-> p.urls[i].display_url]],
            LAMBDA entry : Len(entry.shortUrl) > 0)

matchesQuotedStatusUrl(url, quotedPostId) ==
  /\ url.some /\ url.v # <<>>
  /\ quotedPostId.some /\ quotedPostId.v # <<>>
  /\ With(matchDigitsAfter(url.v, <<"/","s","t","a","t","u","s","/">>), LAMBDA match :
       (IF match.some THEN match.v ELSE <<>>) = quotedPostId.v)

isQuoteLink(entity, quotedPostId) ==
  \/ matchesQuotedStatusUrl(entity.expandedUrl, quotedPostId)
  \/ matchesQuotedStatusUrl(entity.displayUrl, quotedPostId)

isMediaLink(entity) ==
  looksLikeMediaUrl(entity.expandedUrl) \/ looksLikeMediaUrl(entity.displayUrl)

\* `[img${mediaCounter}]`; the counter stays below ten here.
placeholderOf(mediaCounter) == <<"[","i","m","g">> \o <<CharOf(48 + mediaCounter)>> \o <<"]">>

\* The replacements map: a set of pairs, at most one for a short URL.
mapHas(replacements, key) == \E r \in replacements : r.key = key

mapGet(replacements, key) == (CHOOSE r \in replacements : r.key = key).value

\* The loop of formatPostText from entity i on.
RECURSIVE rewriteFrom(_, _, _, _, _, _)
rewriteFrom(urlEntities, i, quotedPostId, text, mediaCounter, replacements) ==
  IF i > Len(urlEntities) THEN text
  ELSE With(urlEntities[i], LAMBDA entity :
    IF ~isTcoUrl(entity.shortUrl)
    THEN rewriteFrom(urlEntities, i + 1, quotedPostId, text, mediaCounter, replacements)
    ELSE IF mapHas(replacements, entity.shortUrl)
    THEN rewriteFrom(urlEntities, i + 1, quotedPostId,
                     splitJoin(text, entity.shortUrl, mapGet(replacements, entity.shortUrl)),
                     mediaCounter, replacements)
    ELSE IF isQuoteLink(entity, quotedPostId)
    THEN rewriteFrom(urlEntities, i + 1, quotedPostId,
                     splitJoin(text, entity.shortUrl, <<"[","q","u","o","t","e","]">>), mediaCounter,
                     replacements \cup {[key |-> entity.shortUrl, value |-> <<"[","q","u","o","t","e","]">>]})
    ELSE IF ~isMediaLink(entity)
    THEN rewriteFrom(urlEntities, i + 1, quotedPostId, text, mediaCounter, replacements)
    ELSE rewriteFrom(urlEntities, i + 1, quotedPostId,
                     splitJoin(text, entity.shortUrl, placeholderOf(mediaCounter + 1)),
                     mediaCounter + 1,
                     replacements \cup {[key |-> entity.shortUrl,
                                         value |-> placeholderOf(mediaCounter + 1)]}))

formatPostText(p) ==
  IF ~p.text.some \/ compactWhitespace(p.text.v) = <<"-">> THEN <<"-">>
  ELSE With(compactWhitespace(p.text.v), LAMBDA rawText :
    With(getPostUrlEntities(p), LAMBDA urlEntities :
      IF Len(urlEntities) = 0 THEN rawText
      ELSE rewriteFrom(urlEntities, 1, extractQuotedPostId(p), rawText, 0, {})))

\* The posts that are formatted. The short links A and AB differ in their
\* last character only: A is a prefix of AB.
ShortA == <<"h","t","t","p","s",":","/","/","t",".","c","o","/","a">>

ShortAB == <<"h","t","t","p","s",":","/","/","t",".","c","o","/","a","b">>

ShortM == <<"h","t","t","p","s",":","/","/","t",".","c","o","/","m">>

ShortQ == <<"h","t","t","p","s",":","/","/","t",".","c","o","/","q">>

PostTexts ==
  {None,
   Some(<<" ","s","e","e"," "," ">> \o ShortA \o <<"\n">> \o ShortQ),
   Some(ShortA \o <<" ">> \o ShortAB \o <<" ">> \o ShortA),
   Some(ShortM \o <<" ">> \o ShortQ \o <<" ">> \o ShortA)}

References ==
  {<<>>,
   <<[type |-> <<"q","u","o","t","e","d">>, id |-> <<>>], [type |-> <<"q","u","o","t","e","d">>, id |-> <<"4","2">>] >>}

Entity(url, expanded, display) ==
  [url |-> url, expanded_url |-> expanded, display_url |-> display]

EntityPool ==
  {Entity(Some(ShortA), Some(<<"h","t","t","p","s",":","/","/","x",".","c","o","m","/","u","/","s","t","a","t","u","s","/","4","2","0","/","p","h","o","t","o","/","1">>), Some(<<"p","i","c",".","x",".","c","o","m","/","a">>)),
   Entity(Some(ShortAB), Some(<<"h","t","t","p","s",":","/","/","x",".","c","o","m","/","u","/","s","t","a","t","u","s","/","4","2","/","v","i","d","e","o","/","1">>), Some(<<"p","i","c",".","t","w","i","t","t","e","r",".","c","o","m","/","b">>)),
   Entity(Some(ShortAB), Some(<<"h","t","t","p","s",":","/","/","e","x","a","m","p","l","e",".","c","o","m","/","p","a","g","e">>), Some(<<"e","x","a","m","p","l","e",".","c","o","m","/","p","a","g","e">>)),
   Entity(Some(ShortM), Some(<<"h","t","t","p","s",":","/","/","w","w","w",".","p","i","c",".","x",".","c","o","m","/","c">>), None),
   Entity(Some(ShortQ), Some(<<"h","t","t","p","s",":","/","/","x",".","c","o","m","/","u","/","s","t","a","t","u","s","/","4","2","/","p","h","o","t","o","/","1">>), Some(<<"x",".","c","o","m","/","u","/","s","t","a","t","u","s","/","4","2">>)),
   Entity(Some(<<"h","t","t","p","s",":","/","/","e","x","a","m","p","l","e",".","c","o","m","/","s">>), Some(<<"h","t","t","p","s",":","/","/","p","i","c",".","x",".","c","o","m","/","d">>), None),
   Entity(None, Some(<<"h","t","t","p","s",":","/","/","p","i","c",".","x",".","c","o","m","/","e">>), None)}

Posts ==
  [text : PostTexts, referenced_tweets : References,
   urls : SeqsUpTo(EntityPool, MaxEntities)]

\* formatPostText(post) is called, once, and returns.
FormatPostText(p) ==
  /\ post' = p
  /\ shown' = [done |-> TRUE, text |-> formatPostText(p)]
  /\ UNCHANGED <<parseVars, cliVars, woeidVars, searchVars, tableVars, mediaVars>>

NextText ==
  /\ ~shown.done
  /\ \E p \in Posts : FormatPostText(p)

InitText == ParseIdle /\ CliIdle /\ WoeidIdle /\ ViewIdle

SpecText == InitText /\ [][NextText]_vars

\* ---------------------------------------------------------------------------
\* Claims about the rewritten links of a post text.
\* ---------------------------------------------------------------------------

\* A post with a text other than "-" has been formatted.
TextShown ==
  /\ shown.done
  /\ post.text.some
  /\ compactWhitespace(post.text.v) # <<"-">>

\* The compacted input text, and the words of a text.
RawText == compactWhitespace(post.text.v)

WordsOf(text) == split(text, {" "})

\* The t.co entities of the post that are classified, as quote or as media,
\* in entity order.
Classified ==
  SelectSeq(getPostUrlEntities(post), LAMBDA entity :
    /\ isTcoUrl(entity.shortUrl)
    /\ isQuoteLink(entity, extractQuotedPostId(post)) \/ isMediaLink(entity))

\* The positions in Classified where a short URL is first met and is media.
MediaFirsts ==
  {i \in 1..Len(Classified) :
     /\ ~isQuoteLink(Classified[i], extractQuotedPostId(post))
     /\ \A j \in 1..(i - 1) : Classified[j].shortUrl # Classified[i].shortUrl}

\* The number of the media short URL met at position i.
MediaNumber(i) == Cardinality({j \in MediaFirsts : j <= i})

\* The numbers N of the placeholders [imgN] in a text.
ImgNumbers(text) == {n \in 1..9 : includes(text, placeholderOf(n))}

\* C19: the k-th distinct media short URL, in entity order, is replaced
\* everywhere in the text by [img k], and the placeholders [imgN] of the
\* output are exactly [img1]..[imgM], M the number of distinct media short
\* URLs.
C19_MediaNumbered ==
  TextShown =>
    /\ \A i \in MediaFirsts : \A w \in 1..Len(WordsOf(RawText)) :
         WordsOf(RawText)[w] = Classified[i].shortUrl
           => /\ w <= Len(WordsOf(shown.text))
              /\ WordsOf(shown.text)[w] = placeholderOf(MediaNumber(i))
    /\ ImgNumbers(shown.text) = 1..Cardinality(MediaFirsts)

\* The short URLs of the post that are classified neither as quote nor as
\* media.
Untouched ==
  {getPostUrlEntities(post)[i].shortUrl : i \in 1..Len(getPostUrlEntities(post))}
    \ {Classified[i].shortUrl : i \in 1..Len(Classified)}

\* C20: every occurrence of a short URL that is neither quote nor media
\* stands unchanged in the output text, whatever other short URLs of the
\* post are rewritten.
C20_OthersUntouched ==
  TextShown =>
    \A w \in 1..Len(WordsOf(RawText)) :
      WordsOf(RawText)[w] \in Untouched
        => /\ w <= Len(WordsOf(shown.text))
           /\ WordsOf(shown.text)[w] = WordsOf(RawText)[w]

\* The positions in Classified where a short URL is first met and is a
\* quote link.
QuoteFirsts ==
  {i \in 1..Len(Classified) :
     /\ isQuoteLink(Classified[i], extractQuotedPostId(post))
     /\ \A j \in 1..(i - 1) : Classified[j].shortUrl # Classified[i].shortUrl}

\* C21: the quote check comes before the media check: a t.co link to the
\* quoted post is replaced by [quote], also when it matches the media rule,
\* and it takes no [imgN] number.
C21_QuoteWins ==
  TextShown =>
    /\ \A i \in QuoteFirsts : \A w \in 1..Len(WordsOf(RawText)) :
         WordsOf(RawText)[w] = Classified[i].shortUrl
           => /\ w <= Len(WordsOf(shown.text))
              /\ WordsOf(shown.text)[w] = <<"[","q","u","o","t","e","]">>
    /\ ImgNumbers(shown.text) \subseteq 1..Cardinality(MediaFirsts)

\* ---------------------------------------------------------------------------
\* Claims about the bearer token and the order of the requests.
\* ---------------------------------------------------------------------------

\* getBearerToken has been called: a client was constructed with its token,
\* or its ConfigError was reported (the size limit reports n > 0 values).
TokenRead ==
  \/ clients > 0
  \/ \E i \in 1..Len(stderr) : stderr[i].kind = "config" /\ stderr[i].n = 0

\* The first of --bearer-token, X_API_BEARER_TOKEN and BEARER_TOKEN that is
\* a non-blank string, trimmed; UndefinedStr when there is none.
TokenBeforeConfig ==
  firstNonEmpty(<<g.bearerToken, env.X_API_BEARER_TOKEN, env.BEARER_TOKEN>>)

\* C24: the bearer token is the first non-blank of --bearer-token,
\* X_API_BEARER_TOKEN, BEARER_TOKEN and the config file: a non-blank option
\* or environment variable is returned whatever the config file is, a
\* missing or an invalid one included.
C24_TokenPrecedence ==
  (TokenRead /\ TokenBeforeConfig # UndefinedStr)
    => getBearerToken(g.bearerToken, env) =
         [threw |-> FALSE, msg |-> "", token |-> TokenBeforeConfig]

\* Inferred user lookup whose arguments are all valid and hold both an Id
\* and a Username.
BothPresent ==
  /\ Inferred(<<"u","s","e","r","s">>, USER_SUBCOMMANDS)
  /\ AllValid(UserArgs)
  /\ Distinct(UserArgs, "id") # {}
  /\ Distinct(UserArgs, "username") # {}

\* A request was issued and did not succeed.
RequestFailed == pc = "done" /\ frame.responses < Len(requests)

\* C30: in inferred user lookup with Ids and usernames, getByIds is
\* requested first and getByUsernames only after getByIds succeeded; nothing
\* is written to standard output unless every request succeeded; a failed
\* request ends with the error alone and exit code 2; the token is read and
\* the client constructed only after validation and the size check passed.
C30_SequentialAllOrNothing ==
  /\ (Inferred(<<"u","s","e","r","s">>, USER_SUBCOMMANDS) /\ TokenRead)
       => /\ AllValid(UserArgs)
          /\ Cardinality(Distinct(UserArgs, "id")) <= LookupLimit
          /\ Cardinality(Distinct(UserArgs, "username")) <= LookupLimit
  /\ BothPresent
       => /\ Len(requests) <= 2
          /\ Len(requests) >= 1 => requests[1].method = "users.getByIds"
          /\ Len(requests) = 2 => /\ requests[2].method = "users.getByUsernames"
                                  /\ frame.responses >= 1
          /\ stdout # <<>> => /\ pc = "done" /\ exitCode = 0
                              /\ Len(requests) = 2 /\ frame.responses = 2
          /\ RequestFailed => /\ exitCode = 2
                              /\ stdout = <<>>
                              /\ Len(stderr) = 1

(***************************************************************************)
(* internal/media.ts: collectPostMedia.  A JSON value that should be a     *)
(* string is an optional string here: None stands for a missing field and  *)
(* for a value that is not a string.  A Map and a plain object are         *)
(* sequences of key/value entries in insertion order.                      *)
(***************************************************************************)

\* The most posts in the data of a response.
MaxPosts == 2

\* The most media objects in the includes of a response.
MaxMedia == 3

getString(value) ==
  IF ~value.some THEN None
  ELSE IF Len(trim(value.v)) > 0 THEN Some(trim(value.v)) ELSE None

\* first ?? second, for optional strings.
orElse(first, second) == IF first.some THEN first ELSE second

\* Map.prototype.has / get / set, and the same on the keys of an object.
entryHas(entries, key) == \E i \in 1..Len(entries) : entries[i].key = key

entryGet(entries, key) ==
  entries[CHOOSE i \in 1..Len(entries) : entries[i].key = key].value

entrySet(entries, key, value) ==
  IF entryHas(entries, key)
  THEN [i \in 1..Len(entries) |->
          IF entries[i].key = key THEN [key |-> key, value |-> value] ELSE entries[i]] \o <<>>
  ELSE Append(entries, [key |-> key, value |-> value])

RECURSIVE uniqueFrom(_, _, _)
\* The loop of uniqueStrings from value i on; out holds what was kept.
uniqueFrom(values, i, out) ==
  IF i > Len(values) THEN out
  ELSE With(getString(values[i]), LAMBDA s :
         IF ~s.some \/ (\E j \in 1..Len(out) : out[j] = s.v)
         THEN uniqueFrom(values, i + 1, out)
         ELSE uniqueFrom(values, i + 1, Append(out, s.v)))

uniqueStrings(values) == uniqueFrom(values, 1, <<>>)

\* attachments is absent (not an object) or holds the two optional lists;
\* toArray of a missing list is the empty list.
getPostMediaKeys(p) ==
  IF ~p.attachments.given THEN <<>>
  ELSE uniqueStrings(IF p.attachments.media_keys.given THEN p.attachments.media_keys.list
                     ELSE IF p.attachments.mediaKeys.given THEN p.attachments.mediaKeys.list
                     ELSE <<>>)

NoPick == [picked |-> FALSE, url |-> <<>>, source |-> <<>>]

pickDownloadUrl(media) ==
  With(getString(media.url), LAMBDA direct :
    IF direct.some THEN [picked |-> TRUE, url |-> direct.v, source |-> <<"u","r","l">>]
    ELSE With(orElse(getString(media.preview_image_url), getString(media.previewImageUrl)),
              LAMBDA preview :
           IF preview.some
           THEN [picked |-> TRUE, url |-> preview.v, source |-> <<"p","r","e","v","i","e","w","_","i","m","a","g","e","_","u","r","l">>]
           ELSE NoPick))

RECURSIVE mediaByKeyFrom(_, _, _)
\* The first loop of collectPostMedia: a later object replaces an earlier
\* one that has the same key.
mediaByKeyFrom(mediaObjects, i, mediaByKey) ==
  IF i > Len(mediaObjects) THEN mediaByKey
  ELSE With(orElse(getString(mediaObjects[i].media_key), getString(mediaObjects[i].mediaKey)),
            LAMBDA mediaKey :
         IF ~mediaKey.some THEN mediaByKeyFrom(mediaObjects, i + 1, mediaByKey)
         ELSE mediaByKeyFrom(mediaObjects, i + 1,
                             entrySet(mediaByKey, mediaKey.v, mediaObjects[i])))

\* getString(media?.["type"]) ?? "unknown"
mediaTypeOf(mediaByKey, mediaKey) ==
  IF ~entryHas(mediaByKey, mediaKey) THEN <<"u","n","k","n","o","w","n">>
  ELSE With(getString(entryGet(mediaByKey, mediaKey).type), LAMBDA t :
         IF t.some THEN t.v ELSE <<"u","n","k","n","o","w","n">>)

\* byType[mediaType] = (byType[mediaType] ?? 0) + 1
countType(byType, mediaType) ==
  entrySet(byType, mediaType,
           IF entryHas(byType, mediaType) THEN entryGet(byType, mediaType) + 1 ELSE 1)

RECURSIVE keysFrom(_, _, _, _, _)
\* The loop over the media keys of one post from key i on; acc holds
\* byType, downloadableCount and the downloadable list.
keysFrom(mediaKeys, i, mediaByKey, postId, acc) ==
  IF i > Len(mediaKeys) THEN acc
  ELSE With(mediaTypeOf(mediaByKey, mediaKeys[i]), LAMBDA mediaType :
       With(countType(acc.byType, mediaType), LAMBDA byType :
         IF ~entryHas(mediaByKey, mediaKeys[i])
         THEN keysFrom(mediaKeys, i + 1, mediaByKey, postId, [acc EXCEPT !.byType = byType])
         ELSE With(pickDownloadUrl(entryGet(mediaByKey, mediaKeys[i])), LAMBDA picked :
                IF ~picked.picked
                THEN keysFrom(mediaKeys, i + 1, mediaByKey, postId,
                              [acc EXCEPT !.byType = byType])
                ELSE keysFrom(mediaKeys, i + 1, mediaByKey, postId,
                              [byType |-> byType,
                               downloadableCount |-> acc.downloadableCount + 1,
                               downloadable |->
                                 Append(acc.downloadable,
                                        [postId |-> postId, mediaKey |-> mediaKeys[i],
                                         type |-> mediaType, url |-> picked.url,
                                         source |-> picked.source])]))))

\* getString(post["id"]) ?? "unknown"
postIdOf(p) == With(getString(p.id), LAMBDA id : IF id.some THEN id.v ELSE <<"u","n","k","n","o","w","n">>)

RECURSIVE postsFrom(_, _, _, _)
\* The loop over the posts from post i on; acc holds summaries and downloadable.
postsFrom(posts, i, mediaByKey, acc) ==
  IF i > Len(posts) THEN acc
  ELSE With(getPostMediaKeys(posts[i]), LAMBDA mediaKeys :
         IF Len(mediaKeys) = 0 THEN postsFrom(posts, i + 1, mediaByKey, acc)
         ELSE With(keysFrom(mediaKeys, 1, mediaByKey, postIdOf(posts[i]),
                            [byType |-> <<>>, downloadableCount |-> 0,
                             downloadable |-> acc.downloadable]), LAMBDA one :
                postsFrom(posts, i + 1, mediaByKey,
                          [summaries |->
                             entrySet(acc.summaries, postIdOf(posts[i]),
                                      [total |-> Len(mediaKeys),
                                       downloadable |-> one.downloadableCount,
                                       byType |-> one.byType]),
                           downloadable |-> one.downloadable])))

\* A response is an object with the posts of data and the media objects of
\* includes.media, or a value that is not an object.
collectPostMedia(resp) ==
  IF ~resp.object THEN [summaries |-> <<>>, downloadable |-> <<>>]
  ELSE postsFrom(resp.data, 1, mediaByKeyFrom(resp.media, 1, <<>>),
                 [summaries |-> <<>>, downloadable |-> <<>>])

(***************************************************************************)
(* Calls of collectPostMedia.                                              *)
(***************************************************************************)

NoList == [given |-> FALSE, list |-> <<>>]

ListOf(list) == [given |-> TRUE, list |-> list]

NoAttachments == [given |-> FALSE, media_keys |-> NoList, mediaKeys |-> NoList]

Attachments(keys) == [given |-> TRUE, media_keys |-> ListOf(keys), mediaKeys |-> NoList]

Post(id, attachments) == [id |-> id, attachments |-> attachments]

PostPool ==
  {Post(Some(<<"1">>), Attachments(<<Some(<<"a">>), Some(<<"b">>), Some(<<"c">>)>>)),
   Post(Some(<<"2">>), Attachments(<<Some(<<"c">>), Some(<<" ">>), None, Some(<<"c">>), Some(<<"d">>)>>)),
   Post(None, [given |-> TRUE, media_keys |-> NoList,
               mediaKeys |-> ListOf(<<Some(<<"a">>)>>)]),
   Post(None, Attachments(<<Some(<<"b">>)>>)),
   Post(Some(<<"4">>), NoAttachments)}

Media(key, type, url, preview) ==
  [media_key |-> key, mediaKey |-> None, type |-> type, url |-> url,
   preview_image_url |-> preview, previewImageUrl |-> None]

MediaPool ==
  {Media(Some(<<"a">>), Some(<<"p","h","o","t","o">>), Some(<<"h","t","t","p","s",":","/","/","p","b","s",".","e","x","a","m","p","l","e","/","a",".","j","p","g">>), None),
   Media(Some(<<"b">>), Some(<<"p","h","o","t","o">>), None, None),
   Media(Some(<<"c">>), Some(<<"v","i","d","e","o">>), None, Some(<<"h","t","t","p","s",":","/","/","p","b","s",".","e","x","a","m","p","l","e","/","c",".","p","n","g">>)),
   [media_key |-> None, mediaKey |-> Some(<<" ","a">>), type |-> None,
    url |-> Some(<<" ">>), preview_image_url |-> None,
    previewImageUrl |-> Some(<<"h","t","t","p","s",":","/","/","p","b","s",".","e","x","a","m","p","l","e","/","d",".","j","p","g">>)]}

MediaResponses ==
  {[object |-> FALSE, data |-> <<>>, media |-> <<>>]} \cup
  [object : {TRUE}, data : SeqsUpTo(PostPool, MaxPosts), media : SeqsUpTo(MediaPool, MaxMedia)]

\* collectPostMedia(response) is called, once, and returns.
CollectPostMedia(resp) ==
  /\ apiResponse' = resp
  /\ \E result \in {collectPostMedia(resp)} :
       collected' = [done |-> TRUE, summaries |-> result.summaries,
                     downloadable |-> result.downloadable]
  /\ UNCHANGED <<assets, dpc, deduped, report, fetched, disk>>
  /\ UNCHANGED <<parseVars, cliVars, woeidVars, searchVars, tableVars, textVars>>

NextMedia ==
  /\ ~collected.done
  /\ \E resp \in MediaResponses : CollectPostMedia(resp)

InitMedia == ParseIdle /\ CliIdle /\ WoeidIdle /\ ViewIdle

SpecMedia == InitMedia /\ [][NextMedia]_vars

(***************************************************************************)
(* internal/media.ts: downloadPostMediaAssets.                             *)
(***************************************************************************)

\* The most assets in a call of downloadPostMediaAssets.
MaxAssets == 2

\* [A-Za-z0-9._-]
SafeChars == UpperChars \cup LowerChars \cup Digits \cup {".", "_", "-"}

RECURSIVE replaceUnsafe(_)
\* value.replace(/[^A-Za-z0-9._-]+/g, "_")
replaceUnsafe(value) ==
  IF value = <<>> THEN <<>>
  ELSE IF Head(value) \in SafeChars THEN <<Head(value)>> \o replaceUnsafe(Tail(value))
  ELSE <<"_">> \o replaceUnsafe(DropUntil(value, SafeChars))

\* s.replace(/^_+|_+$/g, "")
stripUnderscores(s) ==
  With({i \in 1..Len(s) : s[i] # "_"}, LAMBDA keep :
    IF keep = {} THEN <<>>
    ELSE SubSeq(s, CHOOSE i \in keep : \A j \in keep : i <= j,
                   CHOOSE i \in keep : \A j \in keep : i >= j))

\* A sanitizer that keeps the value as it is.
sanitizeSegment_Raw(value) == IF Len(value) > 0 THEN value ELSE <<"i","t","e","m">>

sanitizeSegment(value) ==
  With(stripUnderscores(replaceUnsafe(value)), LAMBDA sanitized :
    IF Len(sanitized) > 0 THEN sanitized ELSE <<"i","t","e","m">>)

\* os.homedir() and process.cwd() of the run.
HomeDir == <<"/","h","o","m","e","/","u">>

Cwd == <<"/","w","o","r","k">>

\* path.resolve of a path without "." segments and without a trailing slash.
resolve(path) ==
  IF startsWith(path, <<"/">>) THEN path
  ELSE IF path = <<>> THEN Cwd
  ELSE Cwd \o <<"/">> \o path

resolveOutputDir(input) ==
  With(trim(input), LAMBDA trimmed :
    IF trimmed = <<"~">> THEN HomeDir
    ELSE IF startsWith(trimmed, <<"~","/">>)
    THEN resolve(IF Len(trimmed) = 2 THEN HomeDir ELSE HomeDir \o <<"/">> \o Drop(trimmed, 2))
    ELSE resolve(trimmed))

\* path.extname: the last segment of the path, trailing slashes dropped,
\* from its last dot on; empty when there is no dot, when the dot is the
\* first character of the segment, and for "..".
extname(path) ==
  With(Take(path, LastIndexOfAny(path, {path[i] : i \in 1..Len(path)} \ {"/"})), LAMBDA trimmed :
    With(DropThroughLast(trimmed, {"/"}), LAMBDA base :
      With(LastIndexOfAny(base, {"."}), LAMBDA dot :
        IF dot <= 1 \/ base = <<".",".">> THEN <<>> ELSE Drop(base, dot - 1))))

\* /^\.[a-z0-9]{1,8}$/
isPlainExtension(ext) ==
  /\ Len(ext) >= 2 /\ Len(ext) <= 9
  /\ ext[1] = "."
  /\ \A i \in 2..Len(ext) : ext[i] \in LowerChars \cup Digits

inferExtension(asset) ==
  With(tryURL(asset.url), LAMBDA parsed :
    IF parsed.ok /\ isPlainExtension(toLowerCase(extname(parsed.pathname)))
    THEN toLowerCase(extname(parsed.pathname))
    ELSE IF asset.type = <<"p","h","o","t","o">> THEN <<".","j","p","g">>
    ELSE IF asset.source = <<"p","r","e","v","i","e","w","_","i","m","a","g","e","_","u","r","l">> THEN <<".","j","p","g">>
    ELSE IF asset.type = <<"v","i","d","e","o">> THEN <<".","m","p","4">>
    ELSE IF asset.type = <<"a","n","i","m","a","t","e","d","_","g","i","f">> THEN <<".","g","i","f">>
    ELSE <<".","b","i","n">>)

fileNameOf(asset) ==
  sanitizeSegment(asset.postId) \o <<"_">> \o sanitizeSegment(asset.mediaKey) \o <<"_">>
    \o asset.source \o inferExtension(asset)

\* path.join(outputDir, fileName) for a file name without a separator.
filePathOf(outputDir, asset) == outputDir \o <<"/">> \o fileNameOf(asset)

dedupeKey(asset) == asset.postId \o <<"|">> \o asset.mediaKey \o <<"|">> \o asset.url

RECURSIVE dedupeFrom(_, _, _)
\* new Map(assets.map(asset => [key, asset])): a key keeps the place of its
\* first asset and the value of its last.
dedupeFrom(list, i, entries) ==
  IF i > Len(list) THEN entries
  ELSE dedupeFrom(list, i + 1, entrySet(entries, dedupeKey(list[i]), list[i]))

\* Array.from(map.values())
dedupeAssets(list) ==
  With(dedupeFrom(list, 1, <<>>), LAMBDA entries :
    [i \in 1..Len(entries) |-> entries[i].value] \o <<>>)

(***************************************************************************)
(* Calls of downloadPostMediaAssets.                                       *)
(***************************************************************************)

Asset(postId, mediaKey, type, url, src) ==
  [postId |-> postId, mediaKey |-> mediaKey, type |-> type, url |-> url, source |-> src]

AssetPool ==
  {Asset(<<"1">>, <<"3","_","a">>, <<"p","h","o","t","o">>, <<"h","t","t","p","s",":","/","/","p","b","s",".","e","x","a","m","p","l","e","/","a",".","j","p","g">>, <<"u","r","l">>),
   Asset(<<"1">>, <<"3","_","a">>, <<"p","h","o","t","o">>, <<"h","t","t","p","s",":","/","/","p","b","s",".","e","x","a","m","p","l","e","/","A",".","J","P","G","?","n","a","m","e","=","s","m","a","l","l">>, <<"u","r","l">>),
   Asset(<<"1">>, <<"3","_","a">>, <<"v","i","d","e","o">>, <<"h","t","t","p","s",":","/","/","p","b","s",".","e","x","a","m","p","l","e","/","a",".","j","p","g">>, <<"p","r","e","v","i","e","w","_","i","m","a","g","e","_","u","r","l">>),
   Asset(<<"a","|","b">>, <<"c">>, <<"v","i","d","e","o">>, <<"h","t","t","p","s",":","/","/","v","i","d","e","o",".","e","x","a","m","p","l","e","/","v">>, <<"u","r","l">>),
   Asset(<<"a">>, <<"b","|","c">>, <<"v","i","d","e","o">>, <<"h","t","t","p","s",":","/","/","v","i","d","e","o",".","e","x","a","m","p","l","e","/","v">>, <<"u","r","l">>),
   Asset(<<".",".","/","x">>, <<"\\", OtherChar, "/">>, <<"a","n","i","m","a","t","e","d","_","g","i","f">>, <<"n","o","t"," ","a"," ","u","r","l">>, <<"u","r","l">>),
   Asset(<<".",".">>, <<"k","\n">>, <<"u","n","k","n","o","w","n">>, <<"h","t","t","p","s",":","/","/","e",".","e","x","a","m","p","l","e","/",".","h","i","d","d","e","n","/","f",".","v","e","r","y","l","o","n","g","e","x","t","/">>, <<"u","r","l">>)}

OutputDirs == {<<"~">>, <<"~","/","m","e","d","i","a">>, <<" ","o","u","t"," ">>}

\* What a fetch and the write that follows it can come to: the file is
\* written, the response is not ok, or fetch, arrayBuffer or writeFile rejects.
FetchOutcomes == {"ok", "status", "reject"}

\* downloadPostMediaAssets(list, outputDirInput) up to its for loop; mkdir
\* rejects when made is FALSE, and the call rejects with it.
DownloadPostMediaAssets(list, outputDirInput, made) ==
  /\ dpc = "idle"
  /\ assets' = list
  /\ IF made
     THEN /\ dpc' = "loop"
          /\ deduped' = dedupeAssets(list)
          /\ report' = [outputDir |-> resolveOutputDir(outputDirInput),
                        attempted |-> Len(dedupeAssets(list)), downloaded |-> 0, failed |-> 0,
                        files |-> <<>>, errors |-> <<>>]
     ELSE /\ dpc' = "threw"
          /\ UNCHANGED <<deduped, report>>
  /\ UNCHANGED <<fetched, disk>>
  /\ UNCHANGED <<apiResponse, collected>>
  /\ UNCHANGED <<parseVars, cliVars, woeidVars, searchVars, tableVars, textVars>>

\* One turn of the for loop, for the first asset not yet visited.
FetchAsset(outcome) ==
  /\ dpc = "loop"
  /\ deduped # <<>>
  /\ deduped' = Tail(deduped)
  /\ fetched' = Append(fetched, Head(deduped).url)
  /\ \E filePath \in {filePathOf(report.outputDir, Head(deduped))} :
       IF outcome = "ok"
       THEN /\ disk' = {f \in disk : f.path # filePath}
                         \cup {[path |-> filePath, from |-> Head(deduped).url]}
            /\ report' = [report EXCEPT !.downloaded = @ + 1,
                                        !.files = Append(@, filePath)]
       ELSE /\ disk' = disk
            /\ report' = [report EXCEPT
                 !.failed = @ + 1,
                 !.errors = Append(@, Head(deduped).url \o
                                      (IF outcome = "status" THEN <<" ","(","H","T","T","P"," ","4","0","4"," ","N","o","t"," ","F","o","u","n","d",")">>
                                       ELSE <<" ","(","f","e","t","c","h"," ","f","a","i","l","e","d",")">>))]
  /\ UNCHANGED <<assets, dpc>>
  /\ UNCHANGED <<apiResponse, collected>>
  /\ UNCHANGED <<parseVars, cliVars, woeidVars, searchVars, tableVars, textVars>>

\* The loop is over: the report is returned.
ReturnReport ==
  /\ dpc = "loop"
  /\ deduped = <<>>
  /\ dpc' = "done"
  /\ UNCHANGED <<assets, deduped, report, fetched, disk>>
  /\ UNCHANGED <<apiResponse, collected>>
  /\ UNCHANGED <<parseVars, cliVars, woeidVars, searchVars, tableVars, textVars>>

NextDownload ==
  \/ /\ dpc = "idle"
     /\ \E list \in SeqsUpTo(AssetPool, MaxAssets), dir \in OutputDirs, made \in BOOLEAN :
          DownloadPostMediaAssets(list, dir, made)
  \/ \E outcome \in FetchOutcomes : FetchAsset(outcome)
  \/ ReturnReport

InitDownload == ParseIdle /\ CliIdle /\ WoeidIdle /\ ViewIdle

SpecDownload == InitDownload /\ [][NextDownload]_vars

(***************************************************************************)
(* Claims about collectPostMedia (SpecMedia).                              *)
(***************************************************************************)

\* The posts of the response that list at least one media key.
PostsListing ==
  {i \in 1..Len(apiResponse.data) : getPostMediaKeys(apiResponse.data[i]) # <<>>}

\* The distinct media keys post i lists.
ListedKeys(i) ==
  {getPostMediaKeys(apiResponse.data[i])[j] :
     j \in 1..Len(getPostMediaKeys(apiResponse.data[i]))}

\* The included media objects that carry key k, by position.
IncludedAt(k) ==
  {m \in 1..Len(apiResponse.media) :
     orElse(getString(apiResponse.media[m].media_key),
            getString(apiResponse.media[m].mediaKey)) = Some(k)}

\* The included media object of key k: the last one that carries it.
IncludedObject(k) ==
  apiResponse.media[CHOOSE m \in IncludedAt(k) : \A n \in IncludedAt(k) : n <= m]

\* Key k has an included object with a url or, failing that, a preview image url.
HasDownloadUrl(k) ==
  /\ IncludedAt(k) # {}
  /\ \/ getString(IncludedObject(k).url).some
     \/ getString(IncludedObject(k).preview_image_url).some
     \/ getString(IncludedObject(k).previewImageUrl).some

RECURSIVE SumOfCounts(_)
SumOfCounts(byType) ==
  IF byType = <<>> THEN 0 ELSE byType[1].value + SumOfCounts(Tail(byType))

\* The summary of post i is the one the claim describes.
SummaryRight(i) ==
  /\ entryHas(collected.summaries, postIdOf(apiResponse.data[i]))
  /\ \E s \in {entryGet(collected.summaries, postIdOf(apiResponse.data[i]))} :
       /\ s.total = Cardinality(ListedKeys(i))
       /\ SumOfCounts(s.byType) = s.total
       /\ s.downloadable = Cardinality({k \in ListedKeys(i) : HasDownloadUrl(k)})
       /\ s.downloadable <= s.total

\* C22: for every post of the response that lists at least one media key,
\* the summary collectPostMedia returns for it has total = the number of
\* distinct media keys, byType counts that sum to total, and downloadable =
\* the number of keys whose included media object has a non-empty url or
\* preview image url.
C22_SummaryCounts ==
  collected.done => \A i \in PostsListing : SummaryRight(i)

(***************************************************************************)
(* Claims about downloadPostMediaAssets (SpecDownload).                    *)
(***************************************************************************)

\* The distinct (postId, mediaKey, url) triples of the assets of the call.
Triples ==
  {<<assets[i].postId, assets[i].mediaKey, assets[i].url>> : i \in 1..Len(assets)}

\* How often fetch was called with url.
FetchCount(url) == Cardinality({i \in 1..Len(fetched) : fetched[i] = url})

\* C23: downloadPostMediaAssets issues one fetch per distinct (postId,
\* mediaKey, url) triple of its assets, whatever the earlier fetches came
\* to, and in the returned report attempted is the number of distinct
\* triples, attempted = downloaded + failed, files has length downloaded
\* and errors has length failed.
C23_OneFetchPerTriple ==
  /\ dpc \in {"loop", "done"} =>
       /\ report.attempted = Cardinality(Triples)
       /\ Len(fetched) = report.downloaded + report.failed
       /\ Len(report.files) = report.downloaded
       /\ Len(report.errors) = report.failed
  /\ dpc = "done" =>
       /\ report.attempted = report.downloaded + report.failed
       /\ \A t \in Triples : FetchCount(t[3]) = Cardinality({s \in Triples : s[3] = t[3]})

\* C28: assets that are distinct after deduplication are written to
\* distinct paths: the report names no path twice and no written file was
\* replaced by a later one.
C28_DistinctPaths ==
  dpc \in {"loop", "done"} =>
    /\ \A i, j \in 1..Len(report.files) : i # j => report.files[i] # report.files[j]
    /\ Cardinality(disk) = report.downloaded

\* The name of a written file: its path after the output directory and "/".
NameIn(path) == Drop(path, Len(report.outputDir) + 1)

OnlySafeChars(s) == \A i \in 1..Len(s) : s[i] \in SafeChars

\* C29: every file written is a direct child of the resolved output
\* directory, its name holds only characters of [A-Za-z0-9._-], and every
\* sanitized segment is non-empty.
C29_SafeFileNames ==
  dpc \in {"loop", "done"} =>
    /\ \A f \in disk :
         /\ Take(f.path, Len(report.outputDir) + 1) = report.outputDir \o <<"/">>
         /\ Len(NameIn(f.path)) > 0
         /\ OnlySafeChars(NameIn(f.path))
         /\ NameIn(f.path) \notin {<<".">>, <<".",".">>}
    /\ \A i \in 1..Len(report.files) : \E f \in disk : f.path = report.files[i]
    /\ \A i \in 1..Len(assets) :
         /\ Len(sanitizeSegment(assets[i].postId)) > 0
         /\ Len(sanitizeSegment(assets[i].mediaKey)) > 0
         /\ OnlySafeChars(sanitizeSegment(assets[i].postId))
         /\ OnlySafeChars(sanitizeSegment(assets[i].mediaKey))

\* Two files were written for assets whose ids hold separators, dots and
\* control characters.
C29_Witness ==
  /\ dpc = "done"
  /\ Cardinality(disk) = 2
  /\ \E i, j \in 1..Len(assets) :
       /\ assets[i].postId = <<".",".","/","x">>
       /\ sanitizeSegment(assets[i].mediaKey) = <<"i","t","e","m">>
       /\ assets[j].postId = <<".",".">>
====
